---- MODULE Spec2Model ----
(***************************************************************************)
(* A model of the marketplace backend's test-data service                  *)
(* (TestDataService: clean / generate), of the bid action service that     *)
(* consumes marketplace events, and of the JSON-RPC client                 *)
(* (CoreRpcService.call).                                                  *)
(*                                                                         *)
(* The store is the relational database: one set of rows per table.  One   *)
(* client calls the services one call at a time (every call is awaited,    *)
(* as the integration test does); inside a call every awaited service      *)
(* operation of a loop iteration is a step of the model.                   *)
(***************************************************************************)
EXTENDS Integers, Sequences, FiniteSets, TLC

VARIABLES
    db,         \* table name -> set of rows (records with an id)
    seq,        \* table name -> last id handed out (sqlite_sequence)
    wallet,     \* number of addresses the coin daemon has handed out
    faker,      \* number of values Faker has drawn
    trace,      \* the store operations of the call in progress, in order
    pc,         \* position of the client / the call in progress
    call,       \* the request of the call in progress
    i,          \* loop counter of the call in progress
    items,      \* the items collected by the call in progress
    ret,        \* outcome of the last finished call
    calls,      \* number of calls started so far
    rpc         \* the JSON-RPC client: its request id counter, its
                \* invocations of call(), and the POSTs it has sent

vars == <<db, seq, wallet, faker, trace, pc, call, i, items, ret, calls, rpc>>

\* The state of the test-data service and its store
dataVars == <<db, seq, wallet, faker, trace, pc, call, i, items, ret, calls>>

----------------------------------------------------------------------------
(* Bounds of the model *)

MaxCalls == 2       \* calls the client makes in one run
MaxAmount == 2      \* largest `amount` of a generate request
MaxVotes == 2       \* largest `voteCount` of a proposal request
MaxRpcCalls == 2    \* invocations of CoreRpcService.call in one run
MaxRawCalls == 1    \* invocations of the raw transaction methods in one run
MaxSignCalls == 2   \* invocations of signMessage and verifyMessage in one run
MaxAddressCalls == 2  \* invocations of CoreRpcService.getNewAddress in one run

Null == 0
Empty == 0          \* {} or [] : a piece of data that was not generated

----------------------------------------------------------------------------
(* The store *)

tablesToClean ==
    << "message_objects", "message_infos", "message_escrows", "message_datas",
       "action_messages", "order_item_objects", "order_items", "orders",
       "bid_datas", "locked_outputs", "bids", "location_markers",
       "item_locations", "shipping_destinations", "item_image_datas",
       "item_images", "item_informations", "shipping_prices", "item_prices",
       "escrow_ratios", "escrows", "payment_informations",
       "messaging_informations", "listing_item_object_datas",
       "listing_item_objects", "listing_items", "listing_item_templates",
       "addresses", "favorite_items", "cryptocurrency_addresses", "profiles",
       "shopping_cart_item", "shopping_cart", "item_categories", "markets",
       "users", "price_ticker", "flagged_items", "currency_prices",
       "proposal_option_results", "proposal_results", "proposal_options",
       "proposals", "votes", "smsg_messages" >>

Tables == {tablesToClean[k] : k \in 1..Len(tablesToClean)}

NotFound == [id |-> Null]

\* The store as the operators below pass it along.
Store ==
    [db |-> db, seq |-> seq, wallet |-> wallet, faker |-> faker, trace |-> trace]

Commit(S) ==
    /\ db' = S.db
    /\ seq' = S.seq
    /\ wallet' = S.wallet
    /\ faker' = S.faker
    /\ trace' = S.trace

Event(op, table, id) == [op |-> op, table |-> table, id |-> id]

Log(S, op, table, id) == [S EXCEPT !.trace = Append(@, Event(op, table, id))]

\* INSERT: the row gets the table's next id.
Insert(S, table, fields) ==
    LET id == S.seq[table] + 1
    IN  [S EXCEPT !.db[table] = @ \cup {[id |-> id] @@ fields},
                  !.seq[table] = id,
                  !.trace = Append(@, Event("insert", table, id))]

LastId(S, table) == S.seq[table]

Row(d, table, id) ==
    IF \E r \in d[table] : r.id = id
    THEN CHOOSE r \in d[table] : r.id = id
    ELSE NotFound

\* The first row of a table that satisfies a condition (lowest id).
First(rows) ==
    IF rows = {} THEN NotFound
    ELSE CHOOSE r \in rows : \A q \in rows : r.id <= q.id

\* A set of rows as the list a relation is fetched as (by id).
RECURSIVE AsList(_)
AsList(rows) ==
    IF rows = {} THEN << >>
    ELSE LET r == First(rows) IN <<r>> \o AsList(rows \ {r})

\* The daemon's getnewaddress: an address nobody has yet.
GetNewAddress(S) == [S EXCEPT !.wallet = @ + 1]

\* Faker draws the data of one piece: a value no earlier draw gave.  (Pieces
\* that are not generated are all the same, Empty.)
Draw(S) == [S EXCEPT !.faker = @ + 1]

----------------------------------------------------------------------------
(* ObjectHash: the content hash of a listing item or a template *)

\* The digest of a canonical form: SHA-256, taken to have no collisions.
Digest(canon) == <<"sha256", canon>>

Canonical_WithId(object, type) ==
    IF type \in {"LISTINGITEMTEMPLATE_CREATEREQUEST", "LISTINGITEM_CREATEREQUEST"}
    THEN << Null, object.itemInformation, object.paymentInformation,
            object.messagingInformation, object.listingItemObjects >>
    ELSE IF type = "PROPOSAL_CREATEREQUEST"
    THEN << object.submitter, object.type, object.title, object.description,
            object.timeStart >>
    ELSE << object.id, object.ItemInformation.value, object.PaymentInformation.value,
            object.MessagingInformation.value, object.ListingItemObjects.value >>

\* The canonical form of an object: of a create request its four pieces of
\* data, of a stored object (toJSON) the values of its four related objects;
\* ids, timestamps and relations to other entities are no part of it.
Canonical(object, type) ==
    IF type \in {"LISTINGITEMTEMPLATE_CREATEREQUEST", "LISTINGITEM_CREATEREQUEST"}
    THEN << object.itemInformation, object.paymentInformation,
            object.messagingInformation, object.listingItemObjects >>
    ELSE IF type = "PROPOSAL_CREATEREQUEST"
    THEN << object.submitter, object.type, object.title, object.description,
            object.timeStart >>
    ELSE << object.ItemInformation.value, object.PaymentInformation.value,
            object.MessagingInformation.value, object.ListingItemObjects.value >>

getHash(object, type) == Digest(Canonical(object, type))

----------------------------------------------------------------------------
(* The domain services: each owns one table *)

\* ProfileService.getDefault / MarketService.getDefault
getDefault(d, table) == First({r \in d[table] : r.name = "DEFAULT"})

\* <Service>.findOne(id)
findOne(d, table, id) == Row(d, table, id)

\* ListingItemService.findOneByHash / ListingItemTemplateService.findOneByHash
findOneByHash(d, table, hash) == First({r \in d[table] : r.hash = hash})

\* A related object of a stored listing item or template, as toJSON gives it.
Related(ownerId, value) == [id |-> ownerId, value |-> value]

\* resources.Bid
BidResource(d, id) ==
    LET r == Row(d, "bids", id)
    IN  [id |-> r.id, action |-> r.action, bidder |-> r.bidder,
         listingItemId |-> r.listing_item_id,
         ListingItem |-> Row(d, "listing_items", r.listing_item_id)]

\* resources.ListingItem: the row with its relations
ListingItemResource(d, id) ==
    LET r == Row(d, "listing_items", id)
    IN  [id |-> r.id, hash |-> r.hash, seller |-> r.seller,
         marketId |-> r.market_id,
         listingItemTemplateId |-> r.listing_item_template_id,
         ItemInformation |-> Related(r.id, r.itemInformation),
         PaymentInformation |-> Related(r.id, r.paymentInformation),
         MessagingInformation |-> Related(r.id, r.messagingInformation),
         ListingItemObjects |-> Related(r.id, r.listingItemObjects),
         Bids |-> AsList({b \in d["bids"] : b.listing_item_id = r.id}),
         ActionMessages |->
             AsList({m \in d["action_messages"] : m.listing_item_id = r.id})]

\* resources.ListingItemTemplate: the row with its relations
ListingItemTemplateResource(d, id) ==
    LET r == Row(d, "listing_item_templates", id)
    IN  [id |-> r.id, hash |-> r.hash,
         ItemInformation |-> Related(r.id, r.itemInformation),
         PaymentInformation |-> Related(r.id, r.paymentInformation),
         MessagingInformation |-> Related(r.id, r.messagingInformation),
         ListingItemObjects |-> Related(r.id, r.listingItemObjects),
         ListingItems |->
             LET rows == AsList({l \in d["listing_items"] :
                                    l.listing_item_template_id = r.id})
             IN  [k \in 1..Len(rows) |->
                     [id |-> rows[k].id, hash |-> rows[k].hash,
                      seller |-> rows[k].seller, marketId |-> rows[k].market_id]],
         Profile |-> Row(d, "profiles", r.profile_id)]

\* ListingItemTemplateService.create: hashes the request and stores it.
ListingItemTemplateService_create(S, request) ==
    Insert(S, "listing_item_templates",
           [hash |-> getHash(request, "LISTINGITEMTEMPLATE_CREATEREQUEST"),
            profile_id |-> request.profile_id,
            itemInformation |-> request.itemInformation,
            paymentInformation |-> request.paymentInformation,
            messagingInformation |-> request.messagingInformation,
            listingItemObjects |-> request.listingItemObjects])

\* ListingItemService.create: hashes the request and stores it.
ListingItemService_create(S, request) ==
    Insert(S, "listing_items",
           [hash |-> getHash(request, "LISTINGITEM_CREATEREQUEST"),
            seller |-> request.seller,
            market_id |-> request.market_id,
            listing_item_template_id |-> request.listing_item_template_id,
            itemInformation |-> request.itemInformation,
            paymentInformation |-> request.paymentInformation,
            messagingInformation |-> request.messagingInformation,
            listingItemObjects |-> request.listingItemObjects])

\* BidService.create
BidService_create(S, request) ==
    Insert(S, "bids",
           [action |-> request.action, bidder |-> request.bidder,
            listing_item_id |-> request.listing_item_id])


----------------------------------------------------------------------------
(* Default data *)

Address(n) == <<"address", n>>
MarketAddress == <<"market", 0>>

EmptyStore ==
    [db |-> [t \in Tables |-> {}], seq |-> [t \in Tables |-> 0],
     wallet |-> 0, faker |-> 0, trace |-> << >>]

\* DefaultItemCategoryService.seedDefaultCategories
seedDefaultCategories(S) ==
    IF \E c \in S.db["item_categories"] : c.key = "cat_ROOT" THEN S
    ELSE Insert(S, "item_categories", [key |-> "cat_ROOT"])

\* DefaultProfileService.seedDefaultProfile
seedDefaultProfile(S) ==
    IF getDefault(S.db, "profiles") # NotFound THEN S
    ELSE LET S1 == GetNewAddress(S)
         IN  Insert(S1, "profiles",
                    [name |-> "DEFAULT", address |-> Address(S1.wallet)])

\* DefaultMarketService.seedDefaultMarket
seedDefaultMarket(S) ==
    IF getDefault(S.db, "markets") # NotFound THEN S
    ELSE Insert(S, "markets", [name |-> "DEFAULT", address |-> MarketAddress])

\* The store of a started application: the default data is in place.
SeededStore ==
    [seedDefaultMarket(seedDefaultProfile(seedDefaultCategories(EmptyStore)))
        EXCEPT !.trace = << >>]

NoCall == [op |-> "none"]
NoReturn == [op |-> "none", status |-> "none", value |-> << >>, request |-> NoCall]

Init ==
    /\ db = SeededStore.db
    /\ seq = SeededStore.seq
    /\ wallet = SeededStore.wallet
    /\ faker = SeededStore.faker
    /\ trace = << >>
    /\ pc = "idle"
    /\ call = NoCall
    /\ i = 0
    /\ items = << >>
    /\ ret = NoReturn
    /\ calls = 0
    /\ rpc = [RPC_REQUEST_ID |-> 1, invocations |-> << >>, posts |-> << >>,
              callers |-> << >>]

\* The client starts a call.
Begin(request, at, count) ==
    /\ pc = "idle"
    /\ calls < MaxCalls
    /\ calls' = calls + 1
    /\ call' = request
    /\ pc' = at
    /\ i' = count
    /\ items' = << >>
    /\ ret' = NoReturn
    /\ trace' = << >>
    /\ UNCHANGED <<db, seq, wallet, faker, rpc>>

\* The call in progress resolves with a value.
Resolve(value) ==
    /\ pc' = "idle"
    /\ ret' = [op |-> call.op, status |-> "resolved", value |-> value,
               request |-> call]
    /\ call' = NoCall
    /\ i' = 0
    /\ items' = << >>

\* The call in progress rejects.
Reject(error) ==
    /\ pc' = "idle"
    /\ ret' = [op |-> call.op, status |-> "rejected", value |-> error,
               request |-> call]
    /\ call' = NoCall
    /\ i' = 0
    /\ items' = << >>

Result(S, ok, value) == [S |-> S, ok |-> ok, value |-> value]

\* TestDataService.generateResponse
RECURSIVE ItemIds(_)
ItemIds(list) ==
    IF list = << >> THEN << >> ELSE <<Head(list).id>> \o ItemIds(Tail(list))

generateResponse_Reversed(list, withRelated) ==
    IF withRelated THEN list
    ELSE [k \in 1..Len(list) |-> list[Len(list) + 1 - k].id]

generateResponse(list, withRelated) ==
    IF withRelated THEN list ELSE ItemIds(list)

Amounts == 0..MaxAmount


----------------------------------------------------------------------------
(* generate(LISTINGITEMTEMPLATE) *)

\* The pieces of data a request asks to generate: all (the default) or none.
GenerateFlags ==
    {[generateItemInformation |-> b, generatePaymentInformation |-> b,
      generateMessagingInformation |-> b, generateListingItemObjects |-> b] :
        b \in BOOLEAN}

\* GenerateListingItemTemplateParams, as far as the generation reads them.
TemplateParams ==
    {flags @@ [generateListingItem |-> g, profileId |-> p, marketId |-> m] :
        flags \in GenerateFlags, g \in BOOLEAN,
        p \in {Null} \cup (1..(seq["profiles"] + 1)),
        m \in {Null} \cup (1..(seq["markets"] + 1))}

TemplateProfile_AlwaysDefault(d, generateParams) == getDefault(d, "profiles")

\* The profile a template is created for.
TemplateProfile(d, generateParams) ==
    IF generateParams.profileId = Null
    THEN getDefault(d, "profiles")
    ELSE findOne(d, "profiles", generateParams.profileId)

\* The market the template's listing item is posted to.
TemplateMarket(d, generateParams) ==
    IF generateParams.marketId = Null
    THEN getDefault(d, "markets")
    ELSE findOne(d, "markets", generateParams.marketId)

\* A piece of data of a request: generated, or left empty.
Piece(S, generate) ==
    IF generate THEN Result(Draw(S), TRUE, Draw(S).faker)
    ELSE Result(S, TRUE, Empty)

\* TestDataService.generateListingItemTemplateData: the create request, or
\* a failure when the profile does not exist.
generateListingItemTemplateData(S, generateParams) ==
    LET itemInformation == Piece(S, generateParams.generateItemInformation)
        paymentInformation ==
            Piece(IF generateParams.generatePaymentInformation
                  THEN GetNewAddress(itemInformation.S) ELSE itemInformation.S,
                  generateParams.generatePaymentInformation)
        messagingInformation ==
            Piece(paymentInformation.S, generateParams.generateMessagingInformation)
        listingItemObjects ==
            Piece(messagingInformation.S, generateParams.generateListingItemObjects)
        profile == TemplateProfile(S.db, generateParams)
    IN  Result(listingItemObjects.S, profile # NotFound,
               [itemInformation |-> itemInformation.value,
                paymentInformation |-> paymentInformation.value,
                messagingInformation |-> messagingInformation.value,
                listingItemObjects |-> listingItemObjects.value,
                profile_id |-> profile.id])

listingItemCreateRequest_OwnData(result, market, listingItemTemplateCreateRequest) ==
    [seller |-> result.Profile.address,
     market_id |-> market.id,
     listing_item_template_id |-> result.id,
     itemInformation |-> Empty,
     paymentInformation |-> listingItemTemplateCreateRequest.paymentInformation,
     messagingInformation |-> listingItemTemplateCreateRequest.messagingInformation,
     listingItemObjects |-> listingItemTemplateCreateRequest.listingItemObjects]

\* The create request of the listing item generated with a template.
listingItemCreateRequest(result, market, listingItemTemplateCreateRequest) ==
    [seller |-> result.Profile.address,
     market_id |-> market.id,
     listing_item_template_id |-> result.id,
     itemInformation |-> listingItemTemplateCreateRequest.itemInformation,
     paymentInformation |-> listingItemTemplateCreateRequest.paymentInformation,
     messagingInformation |-> listingItemTemplateCreateRequest.messagingInformation,
     listingItemObjects |-> listingItemTemplateCreateRequest.listingItemObjects]

\* One iteration of the loop of generateListingItemTemplates: the template,
\* its listing item when asked for, and the template read again.
generateListingItemTemplate(S, generateParams) ==
    LET withListingItem(S1, result, data) ==
            LET market == TemplateMarket(S1.db, generateParams)
            IN  IF market = NotFound THEN Result(S1, FALSE, "NotFound")
                ELSE CHOOSE r \in
                    {Result(Log(S2, "findOne", "listing_item_templates", result.id),
                            TRUE,
                            ListingItemTemplateResource(S2.db, result.id)) :
                        S2 \in {ListingItemService_create(
                                    S1, listingItemCreateRequest(result, market,
                                                                 data.value))}} :
                    TRUE
        created(S1, data) ==
            CHOOSE r \in
                {IF ~generateParams.generateListingItem
                 THEN Result(S1, TRUE, result)
                 ELSE withListingItem(S1, result, data) :
                    result \in {ListingItemTemplateResource(
                                    S1.db, LastId(S1, "listing_item_templates"))}} :
                TRUE
        create(data) ==
            IF ~data.ok THEN Result(data.S, FALSE, "NotFound")
            ELSE CHOOSE r \in
                    {created(S1, data) :
                        S1 \in {ListingItemTemplateService_create(data.S, data.value)}} :
                    TRUE
    IN  CHOOSE r \in
            {create(data) :
                data \in {generateListingItemTemplateData(S, generateParams)}} :
            TRUE

GenerateListingItemTemplates ==
    \E amount \in Amounts, withRelated \in BOOLEAN, gp \in TemplateParams :
        Begin([op |-> "generate", model |-> "LISTINGITEMTEMPLATE",
               amount |-> amount, withRelated |-> withRelated,
               generateParams |-> gp],
              "generateListingItemTemplates", amount)

GenerateListingItemTemplatesStep ==
    /\ pc = "generateListingItemTemplates"
    /\ i > 0
    /\ \E r \in {generateListingItemTemplate(Store, call.generateParams)} :
        /\ Commit(r.S)
        /\ IF r.ok
           THEN /\ items' = Append(items, r.value)
                /\ i' = i - 1
                /\ UNCHANGED <<pc, call, ret>>
           ELSE Reject(r.value)
    /\ UNCHANGED <<calls, rpc>>

GenerateListingItemTemplatesReturn ==
    /\ pc = "generateListingItemTemplates"
    /\ i <= 0
    /\ Resolve(generateResponse(items, call.withRelated))
    /\ UNCHANGED <<db, seq, wallet, faker, trace, calls, rpc>>

----------------------------------------------------------------------------
(* generate(PROFILE) *)

\* TestDataService.generateProfileData and ProfileService.create
generateProfile(S) ==
    LET S1 == GetNewAddress(S)
        S2 == Insert(S1, "profiles", [name |-> "TEST", address |-> Address(S1.wallet)])
    IN  Result(S2, TRUE, Row(S2.db, "profiles", LastId(S2, "profiles")))

GenerateProfiles ==
    \E amount \in Amounts, withRelated \in BOOLEAN :
        Begin([op |-> "generate", model |-> "PROFILE", amount |-> amount,
               withRelated |-> withRelated],
              "generateProfiles", amount)

GenerateProfilesStep ==
    /\ pc = "generateProfiles"
    /\ i > 0
    /\ LET r == generateProfile(Store)
       IN  /\ Commit(r.S)
           /\ items' = Append(items, r.value)
           /\ i' = i - 1
    /\ UNCHANGED <<pc, call, ret, calls, rpc>>

GenerateProfilesReturn_AtZero ==
    /\ pc = "generateProfiles"
    /\ i = 0
    /\ Resolve(generateResponse(items, call.withRelated))
    /\ UNCHANGED <<db, seq, wallet, faker, trace, calls, rpc>>

GenerateProfilesReturn ==
    /\ pc = "generateProfiles"
    /\ i <= 0
    /\ Resolve(generateResponse(items, call.withRelated))
    /\ UNCHANGED <<db, seq, wallet, faker, trace, calls, rpc>>

----------------------------------------------------------------------------
(* BidActionService.processBidReceivedEvent *)

\* The hashes a message may name: those of the listing items, and one of none.
ItemHashes == {l.hash : l \in db["listing_items"]} \cup {Digest(<<"no item">>)}

\* The senders of a message: the default profile (the buyer), or a stranger.
Senders == {p.address : p \in {q \in db["profiles"] : q.name = "DEFAULT"}}
               \cup {Address(0)}

processBidReceivedEvent_Accepts(S, event) ==
    LET bidMessage == event.marketplaceMessage.mpaction
        listingItem == findOneByHash(S.db, "listing_items", bidMessage.item)
    IN  IF listingItem = NotFound THEN Result(S, FALSE, "NotFound")
        ELSE
        LET S1 == BidService_create(S,
                      [action |-> "MPA_ACCEPT",
                       bidder |-> event.smsgMessage.from,
                       listing_item_id |-> listingItem.id])
        IN  Result(S1, TRUE, BidResource(S1.db, LastId(S1, "bids")))

\* The event is resolved against the listing item its message names by hash,
\* and the bid of the message is recorded for that listing item.
processBidReceivedEvent(S, event) ==
    LET bidMessage == event.marketplaceMessage.mpaction
        listingItem == findOneByHash(S.db, "listing_items", bidMessage.item)
    IN  IF listingItem = NotFound THEN Result(S, FALSE, "NotFound")
        ELSE
        LET S1 == BidService_create(S,
                      [action |-> bidMessage.action,
                       bidder |-> event.smsgMessage.from,
                       listing_item_id |-> listingItem.id])
        IN  Result(S1, TRUE, BidResource(S1.db, LastId(S1, "bids")))

ProcessBidReceivedEvent ==
    \E item \in ItemHashes, from \in Senders :
        Begin([op |-> "processBidReceivedEvent",
               smsgMessage |-> [from |-> from],
               marketplaceMessage |->
                   [mpaction |-> [action |-> "MPA_BID", item |-> item]]],
              "processBidReceivedEvent", 0)

ProcessBidReceivedEventStep ==
    /\ pc = "processBidReceivedEvent"
    /\ LET r == processBidReceivedEvent(Store, call)
       IN  /\ Commit(r.S)
           /\ IF r.ok THEN Resolve(r.value) ELSE Reject(r.value)
    /\ UNCHANGED <<calls, rpc>>


----------------------------------------------------------------------------
(* TestDataService.clean *)

\* knex.select().from(table).del()
del(S, table) ==
    [S EXCEPT !.db[table] = {},
              !.trace = Append(@, Event("delete", table, Null))]

Clean ==
    \E seed \in BOOLEAN :
        Begin([op |-> "clean", seed |-> seed], "cleanDb", 1)

\* cleanDb: the tables of the list, one after the other
CleanDbStep ==
    /\ pc = "cleanDb"
    /\ i <= Len(tablesToClean)
    /\ Commit(del(Store, tablesToClean[i]))
    /\ i' = i + 1
    /\ UNCHANGED <<pc, call, items, ret, calls, rpc>>

CleanDbReturn_Early ==
    /\ pc = "cleanDb"
    /\ i > 1
    /\ pc' = IF call.seed THEN "seedDefaultCategories" ELSE "cleanDone"
    /\ UNCHANGED <<db, seq, wallet, faker, trace, call, i, items, ret, calls, rpc>>

CleanDbReturn ==
    /\ pc = "cleanDb"
    /\ i > Len(tablesToClean)
    /\ pc' = IF call.seed THEN "seedDefaultCategories" ELSE "cleanDone"
    /\ UNCHANGED <<db, seq, wallet, faker, trace, call, i, items, ret, calls, rpc>>

SeedDefaultCategories ==
    /\ pc = "seedDefaultCategories"
    /\ Commit(seedDefaultCategories(Log(Store, "seed", "item_categories", Null)))
    /\ pc' = "seedDefaultProfile"
    /\ UNCHANGED <<call, i, items, ret, calls, rpc>>

SeedDefaultProfile ==
    /\ pc = "seedDefaultProfile"
    /\ Commit(seedDefaultProfile(Log(Store, "seed", "profiles", Null)))
    /\ pc' = "seedDefaultMarket"
    /\ UNCHANGED <<call, i, items, ret, calls, rpc>>

SeedDefaultMarket ==
    /\ pc = "seedDefaultMarket"
    /\ Commit(seedDefaultMarket(Log(Store, "seed", "markets", Null)))
    /\ pc' = "cleanDone"
    /\ UNCHANGED <<call, i, items, ret, calls, rpc>>

CleanReturn ==
    /\ pc = "cleanDone"
    /\ Resolve(Null)
    /\ UNCHANGED <<db, seq, wallet, faker, trace, calls, rpc>>

\* cleanDb rejects at the table whose deletion fails: the loop is left, and
\* the catch of clean logs the reason and goes on.
CleanDbCatch_Rejects ==
    /\ pc = "cleanDb"
    /\ i <= Len(tablesToClean)
    /\ Commit(Log(Store, "cleanDb failed", tablesToClean[i], Null))
    /\ Reject(<<"cleanDb", tablesToClean[i]>>)
    /\ UNCHANGED <<calls, rpc>>

CleanDbCatch ==
    /\ pc = "cleanDb"
    /\ i <= Len(tablesToClean)
    /\ Commit(Log(Store, "cleanDb failed", tablesToClean[i], Null))
    /\ pc' = IF call.seed THEN "seedDefaultCategories" ELSE "cleanDone"
    /\ UNCHANGED <<call, i, items, ret, calls, rpc>>

\* A seeding step that rejects: its catch logs the reason and clean goes on
\* with the step after it.
SeedDefaultCategoriesCatch ==
    /\ pc = "seedDefaultCategories"
    /\ Commit(Log(Log(Store, "seed", "item_categories", Null),
                  "seed failed", "item_categories", Null))
    /\ pc' = "seedDefaultProfile"
    /\ UNCHANGED <<call, i, items, ret, calls, rpc>>

SeedDefaultProfileCatch ==
    /\ pc = "seedDefaultProfile"
    /\ Commit(Log(Log(Store, "seed", "profiles", Null),
                  "seed failed", "profiles", Null))
    /\ pc' = "seedDefaultMarket"
    /\ UNCHANGED <<call, i, items, ret, calls, rpc>>

SeedDefaultMarketCatch ==
    /\ pc = "seedDefaultMarket"
    /\ Commit(Log(Log(Store, "seed", "markets", Null),
                  "seed failed", "markets", Null))
    /\ pc' = "cleanDone"
    /\ UNCHANGED <<call, i, items, ret, calls, rpc>>

----------------------------------------------------------------------------
(* The test-data scenario: clean, profiles, templates, bid events *)

Next ==
    \/ GenerateProfiles
    \/ GenerateProfilesStep
    \/ GenerateProfilesReturn
    \/ GenerateListingItemTemplates
    \/ GenerateListingItemTemplatesStep
    \/ GenerateListingItemTemplatesReturn
    \/ ProcessBidReceivedEvent
    \/ ProcessBidReceivedEventStep

Spec == Init /\ [][Next]_vars

\* Cleaning the database, with profiles to clean away
NextClean ==
    \/ Clean
    \/ CleanDbStep
    \/ CleanDbReturn
    \/ SeedDefaultCategories
    \/ SeedDefaultProfile
    \/ SeedDefaultMarket
    \/ CleanReturn
    \/ GenerateProfiles
    \/ GenerateProfilesStep
    \/ GenerateProfilesReturn

SpecClean == Init /\ [][NextClean]_vars

\* Cleaning a database whose deletions and seeding steps may fail
CleanSteps ==
    \/ CleanDbStep
    \/ CleanDbCatch
    \/ CleanDbReturn
    \/ SeedDefaultCategories
    \/ SeedDefaultCategoriesCatch
    \/ SeedDefaultProfile
    \/ SeedDefaultProfileCatch
    \/ SeedDefaultMarket
    \/ SeedDefaultMarketCatch
    \/ CleanReturn
    \/ GenerateProfilesStep
    \/ GenerateProfilesReturn

NextCleanFaulty ==
    \/ Clean
    \/ GenerateProfiles
    \/ CleanSteps

SpecCleanFaulty == Init /\ [][NextCleanFaulty]_vars

\* An awaited promise settles: a call that was started goes on.
SpecCleanFaultyFair == SpecCleanFaulty /\ WF_vars(CleanSteps)


----------------------------------------------------------------------------
(* generate(LISTINGITEM) as generate(BID) uses it *)

\* What a request leaves out (undefined, null or '')
NoHash == << >>
NoAddress == << >>
NoAction == ""

\* new GenerateListingItemTemplateParams(): everything is generated, for the
\* default profile, and no listing item with it.
DefaultListingItemTemplateParams ==
    [generateItemInformation |-> TRUE, generatePaymentInformation |-> TRUE,
     generateMessagingInformation |-> TRUE, generateListingItemObjects |-> TRUE,
     generateListingItem |-> FALSE, profileId |-> Null, marketId |-> Null]

\* new GenerateListingItemParams()
DefaultListingItemParams ==
    [generateItemInformation |-> TRUE, generatePaymentInformation |-> TRUE,
     generateMessagingInformation |-> TRUE, generateListingItemObjects |-> TRUE,
     listingItemTemplateHash |-> NoHash, seller |-> NoAddress]

\* TestDataService.generateListingItemData
generateListingItemData(S, generateParams) ==
    LET defaultProfile == getDefault(S.db, "profiles")
        defaultMarket == getDefault(S.db, "markets")
        S0 == IF generateParams.seller # NoAddress THEN S ELSE GetNewAddress(S)
        seller == IF generateParams.seller # NoAddress
                  THEN generateParams.seller ELSE Address(S0.wallet)
        itemInformation == Piece(S0, generateParams.generateItemInformation)
        paymentInformation ==
            Piece(IF generateParams.generatePaymentInformation
                  THEN GetNewAddress(itemInformation.S) ELSE itemInformation.S,
                  generateParams.generatePaymentInformation)
        messagingInformation ==
            Piece(paymentInformation.S, generateParams.generateMessagingInformation)
        listingItemObjects ==
            Piece(messagingInformation.S, generateParams.generateListingItemObjects)
        listingItemTemplate ==
            IF generateParams.listingItemTemplateHash # NoHash
            THEN findOneByHash(S.db, "listing_item_templates",
                               generateParams.listingItemTemplateHash)
            ELSE NotFound
    IN  IF defaultProfile = NotFound \/ defaultMarket = NotFound
        THEN Result(S, FALSE, "NotFound")
        ELSE Result(listingItemObjects.S, TRUE,
                    [seller |-> seller,
                     itemInformation |-> itemInformation.value,
                     paymentInformation |-> paymentInformation.value,
                     messagingInformation |-> messagingInformation.value,
                     listingItemObjects |-> listingItemObjects.value,
                     market_id |-> defaultMarket.id,
                     listing_item_template_id |-> listingItemTemplate.id])

\* One iteration of the loop of generateListingItems.  (What an awaited call
\* gives is evaluated once: it is drawn from the set of its one outcome.)
generateListingItem(S, generateParams) ==
    LET create(data) ==
            IF ~data.ok \/ getDefault(S.db, "markets") = NotFound
            THEN Result(data.S, FALSE, "NotFound")
            ELSE LET S1 == ListingItemService_create(data.S, data.value)
                 IN  Result(S1, TRUE,
                            ListingItemResource(S1.db, LastId(S1, "listing_items")))
    IN  CHOOSE r \in
            {create(data) : data \in {generateListingItemData(S, generateParams)}} :
            TRUE

----------------------------------------------------------------------------
(* generate(BID) *)

\* The hashes a request may name: none, those of the listing items, and one
\* of no listing item.
ListingItemHashes ==
    {l.hash : l \in db["listing_items"]} \cup {NoHash, Digest(<<"no item">>)}

\* GenerateBidParams
BidParams ==
    [generateListingItemTemplate : BOOLEAN, generateListingItem : BOOLEAN,
     listingItemHash : ListingItemHashes, action : {NoAction, "MPA_ACCEPT"},
     bidder : {NoAddress}, listingItemSeller : {NoAddress}]

\* generateBids before its loop: the template and the listing item the bids
\* are for, when asked for.  Gives the store and the params of the loop.
generateBidsItem(S, generateParams) ==
    LET listingItemGenerateParams(template) ==
            [DefaultListingItemParams EXCEPT
                !.listingItemTemplateHash =
                    IF generateParams.generateListingItemTemplate /\ template.ok
                    THEN template.value.hash ELSE @,
                !.seller = generateParams.listingItemSeller]
        templates ==
            {IF generateParams.generateListingItemTemplate
             THEN generateListingItemTemplate(S, DefaultListingItemTemplateParams)
             ELSE Result(S, TRUE, NotFound)}
        listingItems ==
            {IF generateParams.generateListingItem /\ template.ok
             THEN generateListingItem(template.S, listingItemGenerateParams(template))
             ELSE Result(template.S, template.ok, NotFound) : template \in templates}
    IN  CHOOSE r \in
            {Result(listingItem.S, listingItem.ok,
                    IF generateParams.generateListingItem /\ listingItem.ok
                    THEN [generateParams EXCEPT
                             !.listingItemHash = listingItem.value.hash]
                    ELSE generateParams) : listingItem \in listingItems} : TRUE

BidListingItem_ByPosition(d, generateParams) ==
    Row(d, "listing_items", Cardinality(d["bids"]) + 1)

\* The listing item a bid is for: the one with the hash of the params.
BidListingItem(d, generateParams) ==
    findOneByHash(d, "listing_items", generateParams.listingItemHash)

\* TestDataService.generateBidData
generateBidData(S, generateParams) ==
    LET defaultProfile == getDefault(S.db, "profiles")
        S0 == Draw(S)
        S1 == IF generateParams.bidder # NoAddress THEN S0 ELSE GetNewAddress(S0)
        bidder == IF generateParams.bidder # NoAddress
                  THEN generateParams.bidder ELSE Address(S1.wallet)
        action == IF generateParams.action # NoAction
                  THEN generateParams.action ELSE "MPA_BID"
        listingItem ==
            IF generateParams.listingItemHash # NoHash
            THEN BidListingItem(S.db, generateParams)
            ELSE NotFound
        S2 == IF generateParams.listingItemHash # NoHash
              THEN Log(S1, "findOneByHash", "listing_items", listingItem.id)
              ELSE S1
    IN  Result(S2, defaultProfile # NotFound,
               [action |-> action, bidder |-> bidder,
                listing_item_id |-> listingItem.id])

\* One iteration of the loop of generateBids.  A bid for no listing item is
\* stored as it is or refused (BidService.create decides; `accepts`).
generateBid(S, generateParams, accepts) ==
    LET create(bid) ==
            IF ~bid.ok \/ (bid.value.listing_item_id = Null /\ ~accepts)
            THEN Result(bid.S, FALSE, "Rejected")
            ELSE LET S1 == BidService_create(bid.S, bid.value)
                 IN  Result(S1, TRUE, BidResource(S1.db, LastId(S1, "bids")))
    IN  CHOOSE r \in {create(bid) : bid \in {generateBidData(S, generateParams)}} :
            TRUE

GenerateBids ==
    \E amount \in Amounts, withRelated \in BOOLEAN, gp \in BidParams :
        Begin([op |-> "generate", model |-> "BID", amount |-> amount,
               withRelated |-> withRelated, generateParams |-> gp],
              "generateBids", amount)

GenerateBidsItem ==
    /\ pc = "generateBids"
    /\ \E r \in {generateBidsItem(Store, call.generateParams)} :
           /\ Commit(r.S)
           /\ IF r.ok
              THEN /\ pc' = "generateBidsLoop"
                   /\ call' = [call EXCEPT !.generateParams = r.value]
                   /\ UNCHANGED <<i, items, ret>>
              ELSE Reject(r.value)
    /\ UNCHANGED <<calls, rpc>>

GenerateBidsStep ==
    /\ pc = "generateBidsLoop"
    /\ i > 0
    /\ \E accepts \in BOOLEAN :
        \E r \in {generateBid(Store, call.generateParams, accepts)} :
            /\ Commit(r.S)
            /\ IF r.ok
               THEN /\ items' = Append(items, r.value)
                    /\ i' = i - 1
                    /\ UNCHANGED <<pc, call, ret>>
               ELSE Reject(r.value)
    /\ UNCHANGED <<calls, rpc>>

GenerateBidsReturn ==
    /\ pc = "generateBidsLoop"
    /\ i <= 0
    /\ Resolve(generateResponse(items, call.withRelated))
    /\ UNCHANGED <<db, seq, wallet, faker, trace, calls, rpc>>

----------------------------------------------------------------------------
(* generate(ORDER) *)

\* resources.Order
OrderResource(d, id) ==
    LET r == Row(d, "orders", id)
    IN  [id |-> r.id, buyer |-> r.buyer, seller |-> r.seller,
         OrderItems |-> AsList({o \in d["order_items"] : o.order_id = r.id})]

\* OrderFactory.getModelFromBid: the order of a bid, between the bidder and
\* the seller of the listing item, with one order item for the bid.
getModelFromBid(bid) ==
    [buyer |-> bid.bidder,
     seller |-> IF bid.ListingItem = NotFound THEN NoAddress
                ELSE bid.ListingItem.seller,
     orderItems |-> << [bid_id |-> bid.id, status |-> "AWAITING_ESCROW"] >>]

\* OrderService.create: the order, then its order items.
RECURSIVE OrderItemService_create(_, _, _)
OrderItemService_create(S, orderId, orderItems) ==
    IF orderItems = << >> THEN S
    ELSE OrderItemService_create(
             Insert(S, "order_items",
                    [order_id |-> orderId] @@ Head(orderItems)),
             orderId, Tail(orderItems))

OrderService_create(S, request) ==
    LET S1 == Insert(S, "orders", [buyer |-> request.buyer, seller |-> request.seller])
    IN  OrderItemService_create(S1, LastId(S1, "orders"), request.orderItems)

\* GenerateOrderParams; bidId names a bid of the store or none.
OrderParams ==
    [generateListingItemTemplate : BOOLEAN, generateListingItem : BOOLEAN,
     generateBid : BOOLEAN, generateOrderItem : BOOLEAN,
     listingItemSeller : {NoAddress}, bidId : 1..(seq["bids"] + 1)]

\* new GenerateBidParams() as generateOrders fills it in
bidGenerateParams_DefaultAction(generateParams) ==
    [generateListingItemTemplate |-> generateParams.generateListingItemTemplate,
     generateListingItem |-> generateParams.generateListingItem,
     listingItemHash |-> NoHash, action |-> NoAction, bidder |-> NoAddress,
     listingItemSeller |-> generateParams.listingItemSeller]

bidGenerateParams(generateParams) ==
    [generateListingItemTemplate |-> generateParams.generateListingItemTemplate,
     generateListingItem |-> generateParams.generateListingItem,
     listingItemHash |-> NoHash, action |-> "MPA_ACCEPT", bidder |-> NoAddress,
     listingItemSeller |-> generateParams.listingItemSeller]

\* generateOrders before its loop: the bid of the orders, generated
\* (generateBids(1, true, ...)) or read.
generateOrdersBid(S, generateParams, accepts) ==
    IF generateParams.generateBid
    THEN CHOOSE r \in
             {IF ~item.ok THEN item ELSE generateBid(item.S, item.value, accepts) :
                 item \in {generateBidsItem(S, bidGenerateParams(generateParams))}} :
             TRUE
    ELSE LET bid == findOne(S.db, "bids", generateParams.bidId)
         IN  Result(Log(S, "findOne", "bids", generateParams.bidId),
                    bid # NotFound,
                    IF bid = NotFound THEN "NotFound" ELSE BidResource(S.db, bid.id))

\* TestDataService.generateOrderData
generateOrderData(S, generateParams) ==
    LET bid == findOne(S.db, "bids", generateParams.bidId)
        S1 == Log(S, "findOne", "bids", generateParams.bidId)
    IN  IF bid = NotFound THEN Result(S1, FALSE, "NotFound")
        ELSE LET orderCreateRequest == getModelFromBid(BidResource(S.db, bid.id))
             IN  Result(S1, TRUE,
                        IF ~generateParams.generateOrderItem
                        THEN [orderCreateRequest EXCEPT !.orderItems = << >>]
                        ELSE orderCreateRequest)

\* One iteration of the loop of generateOrders.  The factory and the order
\* service take the bid or refuse it (`accepts`).
generateOrder(S, generateParams, accepts) ==
    LET create(order) ==
            IF ~order.ok \/ ~accepts THEN Result(order.S, FALSE, "Rejected")
            ELSE LET S1 == OrderService_create(order.S, order.value)
                 IN  Result(S1, TRUE, OrderResource(S1.db, LastId(S1, "orders")))
    IN  CHOOSE r \in
            {create(order) : order \in {generateOrderData(S, generateParams)}} :
            TRUE

GenerateOrders ==
    \E amount \in Amounts, withRelated \in BOOLEAN, gp \in OrderParams :
        Begin([op |-> "generate", model |-> "ORDER", amount |-> amount,
               withRelated |-> withRelated, generateParams |-> gp],
              "generateOrders", amount)

GenerateOrdersBid ==
    /\ pc = "generateOrders"
    /\ \E accepts \in BOOLEAN :
        \E r \in {generateOrdersBid(Store, call.generateParams, accepts)} :
            /\ Commit(r.S)
            /\ IF r.ok
               THEN /\ pc' = "generateOrdersLoop"
                    /\ call' = [call EXCEPT !.generateParams.bidId = r.value.id]
                    /\ UNCHANGED <<i, items, ret>>
               ELSE Reject(r.value)
    /\ UNCHANGED <<calls, rpc>>

GenerateOrdersStep ==
    /\ pc = "generateOrdersLoop"
    /\ i > 0
    /\ \E accepts \in BOOLEAN :
        \E r \in {generateOrder(Store, call.generateParams, accepts)} :
            /\ Commit(r.S)
            /\ IF r.ok
               THEN /\ items' = Append(items, r.value)
                    /\ i' = i - 1
                    /\ UNCHANGED <<pc, call, ret>>
               ELSE Reject(r.value)
    /\ UNCHANGED <<calls, rpc>>

GenerateOrdersReturn ==
    /\ pc = "generateOrdersLoop"
    /\ i <= 0
    /\ Resolve(generateResponse(items, call.withRelated))
    /\ UNCHANGED <<db, seq, wallet, faker, trace, calls, rpc>>

\* Bids and the orders made from them
NextOrder ==
    \/ GenerateBids
    \/ GenerateBidsItem
    \/ GenerateBidsStep
    \/ GenerateBidsReturn
    \/ GenerateOrders
    \/ GenerateOrdersBid
    \/ GenerateOrdersStep
    \/ GenerateOrdersReturn

SpecOrder == Init /\ [][NextOrder]_vars

----------------------------------------------------------------------------
(* generate(PROPOSAL) *)

\* resources.Proposal: the row with its options and its results
ProposalResource(d, id) ==
    LET r == Row(d, "proposals", id)
        results == AsList({x \in d["proposal_results"] : x.proposal_id = id})
    IN  [id |-> r.id, hash |-> r.hash, submitter |-> r.submitter,
         type |-> r.type, item |-> r.item, title |-> r.title,
         ProposalOptions |->
             AsList({o \in d["proposal_options"] : o.proposal_id = id}),
         ProposalResults |->
             [k \in 1..Len(results) |->
                 [id |-> results[k].id,
                  ProposalOptionResults |->
                      AsList({x \in d["proposal_option_results"] :
                                 x.proposal_result_id = results[k].id})]]]

\* ProposalService.create: the proposal, then its options.
RECURSIVE ProposalOptionService_create(_, _, _)
ProposalOptionService_create(S, proposalId, options) ==
    IF options = << >> THEN S
    ELSE ProposalOptionService_create(
             Insert(S, "proposal_options",
                    [proposal_id |-> proposalId] @@ Head(options)),
             proposalId, Tail(options))

ProposalService_create(S, request) ==
    LET S1 == Insert(S, "proposals",
                     [hash |-> request.hash, submitter |-> request.submitter,
                      type |-> request.type, item |-> request.item,
                      title |-> request.title, timeStart |-> request.timeStart])
    IN  ProposalOptionService_create(S1, LastId(S1, "proposals"), request.options)

\* VoteService.create
VoteService_create(S, request) ==
    Insert(S, "votes",
           [proposal_option_id |-> request.proposal_option_id,
            voter |-> request.voter, weight |-> request.weight])

\* ProposalService.createEmptyProposalResult: a result of the proposal with,
\* for each option, no weight and no voters.
RECURSIVE createEmptyOptionResults(_, _, _)
createEmptyOptionResults(S, resultId, options) ==
    IF options = << >> THEN S
    ELSE createEmptyOptionResults(
             Insert(S, "proposal_option_results",
                    [proposal_result_id |-> resultId,
                     proposal_option_id |-> Head(options).id,
                     weight |-> 0, voters |-> 0]),
             resultId, Tail(options))

createEmptyProposalResult(S, proposal) ==
    LET S1 == Insert(S, "proposal_results", [proposal_id |-> proposal.id])
    IN  createEmptyOptionResults(S1, LastId(S1, "proposal_results"),
                                 proposal.ProposalOptions)

\* The last result of a proposal.
LastResult(d, proposalId) ==
    LET results == {x \in d["proposal_results"] : x.proposal_id = proposalId}
    IN  IF results = {} THEN NotFound
        ELSE CHOOSE x \in results : \A y \in results : y.id <= x.id

\* ProposalService.recalculateProposalResult: the option results of the
\* proposal's last result get the weight and the number of the votes that
\* are stored for their option (every test vote weighs 1).
recalculateProposalResult(S, proposal) ==
    LET result == LastResult(S.db, proposal.id)
        Votes(optionId) == {v \in S.db["votes"] : v.proposal_option_id = optionId}
    IN  [S EXCEPT
            !.db["proposal_option_results"] =
                {IF x.proposal_result_id = result.id /\ result # NotFound
                 THEN [x EXCEPT !.weight = Cardinality(Votes(x.proposal_option_id)),
                                !.voters = Cardinality(Votes(x.proposal_option_id))]
                 ELSE x : x \in @},
            !.trace = Append(@, Event("update", "proposal_results", result.id))]

\* GenerateProposalParams
ProposalParams ==
    [generateListingItemTemplate : BOOLEAN, generateListingItem : BOOLEAN,
     listingItemHash : {NoHash, Digest(<<"no item">>)},
     submitter : {NoAddress}, generatePastProposal : BOOLEAN,
     voteCount : 0..MaxVotes]

\* TestDataService.generateProposalData
generateProposalData(S, generateParams) ==
    LET defaultProfile == getDefault(S.db, "profiles")
        submitter == IF generateParams.submitter = NoAddress
                     THEN defaultProfile.address ELSE generateParams.submitter
        given == generateParams.listingItemHash # NoHash
        S1 == IF given THEN S ELSE Draw(S)
        S2 == IF given THEN S1 ELSE Draw(S1)
        S3 == Draw(S2)
        request == [submitter |-> submitter,
                    type |-> IF given THEN "ITEM_VOTE" ELSE "PUBLIC_VOTE",
                    item |-> generateParams.listingItemHash,
                    title |-> IF given THEN generateParams.listingItemHash
                              ELSE <<"words", S1.faker>>,
                    description |-> IF given THEN <<"ILLEGAL ITEM">>
                                    ELSE <<"words", S2.faker>>,
                    timeStart |-> [past |-> generateParams.generatePastProposal,
                                   at |-> S3.faker]]
        hash == getHash(request, "PROPOSAL_CREATEREQUEST")
    IN  IF generateParams.submitter = NoAddress /\ defaultProfile = NotFound
        THEN Result(S, FALSE, "NotFound")
        ELSE Result(S3, TRUE,
                    request @@
                    [hash |-> hash,
                     options |-> << [optionId |-> 0, description |-> "KEEP"],
                                    [optionId |-> 1, description |-> "REMOVE"] >>])

\* TestDataService.generateVotesForProposal: `choices` are the options the
\* random booleans pick, one for each vote.
RECURSIVE generateVotesForProposal(_, _, _)
generateVotesForProposal(S, choices, proposal) ==
    IF choices = << >> THEN S
    ELSE LET S1 == Draw(S)
             S2 == Draw(S1)
             voteCreateRequest ==
                 [proposal_option_id |->
                      proposal.ProposalOptions[IF Head(choices) THEN 1 ELSE 2].id,
                  voter |-> <<"voter", S1.faker>>, weight |-> 1]
         IN  generateVotesForProposal(VoteService_create(S2, voteCreateRequest),
                                      Tail(choices), proposal)

\* The random booleans of the votes of one proposal.
VoteChoices(generateParams) ==
    [1..(IF generateParams.voteCount > 0 THEN generateParams.voteCount ELSE 0)
        -> BOOLEAN]

generateProposal_ReadBeforeVotes(S, generateParams, choices) ==
    LET data == generateProposalData(S, generateParams)
    IN  IF ~data.ok THEN data
        ELSE
        LET S1 == ProposalService_create(data.S, data.value)
            proposal == ProposalResource(S1.db, LastId(S1, "proposals"))
            S2 == createEmptyProposalResult(S1, proposal)
            S3 == recalculateProposalResult(S2, proposal)
            S4 == Log(S3, "findOne", "proposals", proposal.id)
            S5 == generateVotesForProposal(S4, choices, proposal)
        IN  Result(S5, TRUE, ProposalResource(S4.db, proposal.id))

\* One iteration of the loop of generateProposals.
generateProposal(S, generateParams, choices) ==
    LET read(S4, proposal) ==
            CHOOSE r \in
                {Result(S5, TRUE, ProposalResource(S5.db, proposal.id)) :
                    S5 \in {Log(S4, "findOne", "proposals", proposal.id)}} :
                TRUE
        recalculate(S3, proposal) ==
            CHOOSE r \in
                {read(S4, proposal) :
                    S4 \in {recalculateProposalResult(S3, proposal)}} :
                TRUE
        result(S2, proposal) ==
            CHOOSE r \in
                {recalculate(S3, proposal) :
                    S3 \in {createEmptyProposalResult(S2, proposal)}} :
                TRUE
        votes(S1, proposal) ==
            CHOOSE r \in
                {result(S2, proposal) :
                    S2 \in {generateVotesForProposal(S1, choices, proposal)}} :
                TRUE
        created(S1) ==
            CHOOSE r \in
                {votes(S1, proposal) :
                    proposal \in {ProposalResource(S1.db, LastId(S1, "proposals"))}} :
                TRUE
        create(data) ==
            IF ~data.ok THEN data
            ELSE CHOOSE r \in
                    {created(S1) :
                        S1 \in {ProposalService_create(data.S, data.value)}} :
                    TRUE
    IN  CHOOSE r \in
            {create(data) : data \in {generateProposalData(S, generateParams)}} :
            TRUE

GenerateProposals ==
    \E amount \in Amounts, withRelated \in BOOLEAN, gp \in ProposalParams :
        Begin([op |-> "generate", model |-> "PROPOSAL", amount |-> amount,
               withRelated |-> withRelated, generateParams |-> gp],
              "generateProposals", amount)

\* new MessageException(message): an Exception with code 404
MessageException(message) ==
    [name |-> "MessageException", code |-> 404, message |-> message]

\* new NotImplementedException(): the MessageException 'Not implemented.'
NotImplementedException ==
    [MessageException("Not implemented.") EXCEPT !.name = "NotImplementedException"]

GenerateProposalsItem_Ignored ==
    /\ pc = "generateProposals"
    /\ pc' = "generateProposalsLoop"
    /\ UNCHANGED <<db, seq, wallet, faker, trace, call, i, items, ret, calls, rpc>>

\* generateProposals before its loop: templates and listing items are not
\* generated for proposals.
GenerateProposalsItem ==
    /\ pc = "generateProposals"
    /\ IF call.generateParams.generateListingItemTemplate
           \/ call.generateParams.generateListingItem
       THEN Reject(NotImplementedException)
       ELSE /\ pc' = "generateProposalsLoop"
            /\ UNCHANGED <<call, i, items, ret>>
    /\ UNCHANGED <<db, seq, wallet, faker, trace, calls, rpc>>

GenerateProposalsStep ==
    /\ pc = "generateProposalsLoop"
    /\ i > 0
    /\ \E choices \in VoteChoices(call.generateParams) :
        \E r \in {generateProposal(Store, call.generateParams, choices)} :
            /\ Commit(r.S)
            /\ IF r.ok
               THEN /\ items' = Append(items, r.value)
                    /\ i' = i - 1
                    /\ UNCHANGED <<pc, call, ret>>
               ELSE Reject(r.value)
    /\ UNCHANGED <<calls, rpc>>

GenerateProposalsReturn ==
    /\ pc = "generateProposalsLoop"
    /\ i <= 0
    /\ Resolve(generateResponse(items, call.withRelated))
    /\ UNCHANGED <<db, seq, wallet, faker, trace, calls, rpc>>

\* Proposals and their votes
NextProposal ==
    \/ GenerateProposals
    \/ GenerateProposalsItem
    \/ GenerateProposalsStep
    \/ GenerateProposalsReturn

SpecProposal == Init /\ [][NextProposal]_vars

----------------------------------------------------------------------------
(* create *)

\* CreatableModel: the models the two switches of the service name.
CreatableModel ==
    {"LISTINGITEMTEMPLATE", "LISTINGITEM", "ACTIONMESSAGE", "PROFILE",
     "ITEMCATEGORY", "FAVORITEITEM", "ITEMINFORMATION", "BID",
     "PAYMENTINFORMATION", "ITEMIMAGE", "ORDER", "PROPOSAL"}

\* body.data: the create request of the record, one of two.
TestData == {"data", "other data"}

\* TestDataCreateRequest
TestDataCreateRequests ==
    [op : {"create"}, model : CreatableModel, data : TestData,
     timestampedHash : BOOLEAN]

\* The create of a domain service, named by the service's table: it
\* validates the request, and inserts the record or fails.
Service_create(S, table, request, accepts) ==
    LET S1 == Log(S, "create", table, S.seq[table] + 1)
    IN  IF accepts
        THEN LET S2 == Insert(S1, table, request)
             IN  Result(S2, TRUE, Row(S2.db, table, LastId(S2, table)))
        ELSE Result(S1, FALSE,
                    [name |-> "ValidationException", code |-> 400,
                     message |-> "Request body is not valid"])

create_OrderToo(S, body, accepts) ==
    CASE body.model = "LISTINGITEMTEMPLATE" ->
            Service_create(S, "listing_item_templates",
                           [data |-> body.data,
                            timestampedHash |-> body.timestampedHash],
                           accepts)
      [] body.model = "LISTINGITEM" ->
            Service_create(S, "listing_items", [data |-> body.data], accepts)
      [] body.model = "ACTIONMESSAGE" ->
            Service_create(S, "action_messages", [data |-> body.data], accepts)
      [] body.model = "PROFILE" ->
            Service_create(S, "profiles", [data |-> body.data], accepts)
      [] body.model = "ITEMCATEGORY" ->
            Service_create(S, "item_categories", [data |-> body.data], accepts)
      [] body.model = "FAVORITEITEM" ->
            Service_create(S, "favorite_items", [data |-> body.data], accepts)
      [] body.model = "ITEMINFORMATION" ->
            Service_create(S, "item_informations", [data |-> body.data], accepts)
      [] body.model = "BID" ->
            Service_create(S, "bids", [data |-> body.data], accepts)
      [] body.model = "PAYMENTINFORMATION" ->
            Service_create(S, "payment_informations", [data |-> body.data], accepts)
      [] body.model = "ITEMIMAGE" ->
            Service_create(S, "item_images", [data |-> body.data], accepts)
      [] body.model = "ORDER" ->
            Service_create(S, "orders", [data |-> body.data], accepts)
      [] OTHER -> Result(S, FALSE, MessageException("Not implemented"))

\* TestDataService.create: the switch on body.model
create(S, body, accepts) ==
    CASE body.model = "LISTINGITEMTEMPLATE" ->
            Service_create(S, "listing_item_templates",
                           [data |-> body.data,
                            timestampedHash |-> body.timestampedHash],
                           accepts)
      [] body.model = "LISTINGITEM" ->
            Service_create(S, "listing_items", [data |-> body.data], accepts)
      [] body.model = "ACTIONMESSAGE" ->
            Service_create(S, "action_messages", [data |-> body.data], accepts)
      [] body.model = "PROFILE" ->
            Service_create(S, "profiles", [data |-> body.data], accepts)
      [] body.model = "ITEMCATEGORY" ->
            Service_create(S, "item_categories", [data |-> body.data], accepts)
      [] body.model = "FAVORITEITEM" ->
            Service_create(S, "favorite_items", [data |-> body.data], accepts)
      [] body.model = "ITEMINFORMATION" ->
            Service_create(S, "item_informations", [data |-> body.data], accepts)
      [] body.model = "BID" ->
            Service_create(S, "bids", [data |-> body.data], accepts)
      [] body.model = "PAYMENTINFORMATION" ->
            Service_create(S, "payment_informations", [data |-> body.data], accepts)
      [] body.model = "ITEMIMAGE" ->
            Service_create(S, "item_images", [data |-> body.data], accepts)
      [] OTHER -> Result(S, FALSE, MessageException("Not implemented"))

\* The client calls create.
Create ==
    \E body \in TestDataCreateRequests : Begin(body, "create", 0)

CreateReturn ==
    /\ pc = "create"
    /\ \E accepts \in BOOLEAN :
        \E r \in {create(Store, call, accepts)} :
            /\ Commit(r.S)
            /\ IF r.ok THEN Resolve(r.value) ELSE Reject(r.value)
    /\ UNCHANGED <<calls, rpc>>

\* Records created from given data
NextCreate ==
    \/ Create
    \/ CreateReturn

SpecCreate == Init /\ [][NextCreate]_vars

----------------------------------------------------------------------------
(* CoreRpcService.call *)

\* The bodies the daemon (or a proxy in front of it) answers with: nothing,
\* something that is not JSON, the JSON null, a JSON-RPC result (one of two
\* values), a JSON-RPC error.
NoError == << >>
Contents ==
    { [text |-> "", json |-> FALSE, object |-> FALSE, result |-> "",
       error |-> NoError],
      [text |-> "<html>", json |-> FALSE, object |-> FALSE, result |-> "",
       error |-> NoError],
      [text |-> "null", json |-> TRUE, object |-> FALSE, result |-> "",
       error |-> NoError],
      [text |-> "{result}", json |-> TRUE, object |-> TRUE, result |-> "value",
       error |-> NoError],
      [text |-> "{result2}", json |-> TRUE, object |-> TRUE, result |-> "value2",
       error |-> NoError],
      [text |-> "{error}", json |-> TRUE, object |-> TRUE, result |-> "",
       error |-> <<"-32601", "Method not found">>] }

\* What WebRequest.post settles with: a response, or a failure to get one.
Responses ==
    [failed : {FALSE}, statusCode : {200, 401, 500},
     statusMessage : {"status"}, content : Contents]
    \cup
    [failed : {TRUE}, statusCode : {0}, statusMessage : {"ECONNREFUSED"},
     content : {CHOOSE c \in Contents : c.text = ""}]

NoResponse == << >>

Methods == {"getnewaddress", "smsgaddlocaladdress"}

\* JSON.parse: the value of a JSON text, or a SyntaxError.
JSONparse(content) ==
    IF content.json
    THEN Result(content, TRUE,
                IF content.object
                THEN [result |-> content.result, error |-> content.error]
                ELSE "null")
    ELSE Result(content, FALSE, [name |-> "SyntaxError", message |-> content.text])

Invocation(n) == rpc.invocations[n]

Invocations(state) ==
    {n \in 1..Len(rpc.invocations) : Invocation(n).state = state}

SetInvocation(n, state, value) ==
    rpc' = [rpc EXCEPT !.invocations[n].state = state,
                       !.invocations[n].value = value]

CoreRpcService_call_SameId(r, method, params) ==
    LET id == r.RPC_REQUEST_ID
        postData == [jsonrpc |-> "2.0", method |-> method, params |-> params,
                     id |-> id]
    IN  [r EXCEPT
            !.invocations =
                Append(@, [id |-> id, method |-> method, params |-> params,
                           state |-> "posted", value |-> << >>,
                           response |-> NoResponse]),
            !.posts = Append(@, postData)]

\* call(method, params) up to its POST: the client after the invocation has
\* taken the next request id and has sent the request.
CoreRpcService_call(r, method, params) ==
    LET id == r.RPC_REQUEST_ID
        postData == [jsonrpc |-> "2.0", method |-> method, params |-> params,
                     id |-> id]
    IN  [r EXCEPT
            !.RPC_REQUEST_ID = id + 1,
            !.invocations =
                Append(@, [id |-> id, method |-> method, params |-> params,
                           state |-> "posted", value |-> << >>,
                           response |-> NoResponse]),
            !.posts = Append(@, postData)]

\* A caller invokes call(method).
Call ==
    /\ Len(rpc.invocations) < MaxRpcCalls
    /\ \E method \in Methods : rpc' = CoreRpcService_call(rpc, method, << >>)
    /\ UNCHANGED dataVars

\* WebRequest.post settles.
Post ==
    /\ \E n \in Invocations("posted"), response \in Responses :
        rpc' = [rpc EXCEPT
                   !.invocations[n].response = response,
                   !.invocations[n].state =
                       IF response.failed THEN "catch" ELSE "then",
                   !.invocations[n].value =
                       IF response.failed
                       THEN [name |-> "Error", message |-> response.statusMessage]
                       ELSE response]
    /\ UNCHANGED dataVars

then_IgnoresError(response) ==
    LET parsed == JSONparse(response.content)
    IN  IF response.statusCode # 200
        THEN IF response.content.text = ""
             THEN Result(response, FALSE,
                         [name |-> "HttpException", code |-> response.statusCode,
                          body |-> response.statusMessage])
             ELSE IF parsed.ok
             THEN Result(response, FALSE,
                         [name |-> "HttpException", code |-> response.statusCode,
                          body |-> parsed.value])
             ELSE Result(response, FALSE, parsed.value)
        ELSE IF ~parsed.ok
        THEN Result(response, FALSE, parsed.value)
        ELSE IF ~response.content.object
        THEN Result(response, FALSE,
                    [name |-> "TypeError",
                     message |-> "Cannot read property 'error' of null"])
        ELSE Result(response, TRUE, parsed.value.result)

\* response => ... : what the then handler returns (ok) or throws.
then(response) ==
    LET parsed == JSONparse(response.content)
    IN  IF response.statusCode # 200
        THEN IF response.content.text = ""
             THEN Result(response, FALSE,
                         [name |-> "HttpException", code |-> response.statusCode,
                          body |-> response.statusMessage])
             ELSE IF parsed.ok
             THEN Result(response, FALSE,
                         [name |-> "HttpException", code |-> response.statusCode,
                          body |-> parsed.value])
             ELSE Result(response, FALSE, parsed.value)
        ELSE IF ~parsed.ok
        THEN Result(response, FALSE, parsed.value)
        ELSE IF ~response.content.object
        THEN Result(response, FALSE,
                    [name |-> "TypeError",
                     message |-> "Cannot read property 'error' of null"])
        ELSE IF parsed.value.error # NoError
        THEN Result(response, FALSE,
                    [name |-> "InternalServerException",
                     body |-> parsed.value.error])
        ELSE Result(response, TRUE, parsed.value.result)

\* .then(response => ...)
Then ==
    /\ \E n \in Invocations("then") :
        LET r == then(Invocation(n).value)
        IN  SetInvocation(n, IF r.ok THEN "resolved" ELSE "catch", r.value)
    /\ UNCHANGED dataVars

Catch_Again ==
    /\ \E n \in Invocations("catch") :
        LET error == Invocation(n).value
        IN  IF error.name \in {"HttpException", "InternalServerException"}
            THEN SetInvocation(n, "rejected", error)
            ELSE rpc' = [rpc EXCEPT
                            !.invocations[n].state = "posted",
                            !.invocations[n].value = << >>,
                            !.posts = Append(@, [jsonrpc |-> "2.0",
                                                 method |-> Invocation(n).method,
                                                 params |-> Invocation(n).params,
                                                 id |-> Invocation(n).id])]
    /\ UNCHANGED dataVars

catch_Unwrapped(error) == error

\* error => ... : what the catch handler throws.
catch(error) ==
    IF error.name \in {"HttpException", "InternalServerException"}
    THEN error
    ELSE [name |-> "InternalServerException",
          body |-> <<error.name, error.message>>]

\* .catch(error => ...)
Catch ==
    /\ \E n \in Invocations("catch") :
        SetInvocation(n, "rejected", catch(Invocation(n).value))
    /\ UNCHANGED dataVars

\* Calls of the JSON-RPC client, several of them in flight
NextRpc ==
    \/ Call
    \/ Post
    \/ Then
    \/ Catch

SpecRpc == Init /\ [][NextRpc]_vars

----------------------------------------------------------------------------
(* CoreRpcService.getNewAddress *)

\* An optional argument: << >> when the caller leaves it out.
Optional(values) == {<< >>} \cup {<<v>> : v \in values}

OrDefault(argument, default) ==
    IF argument = << >> THEN default ELSE argument[1]

Settled(n) == Invocation(n).state \in {"resolved", "rejected"}

Callers(state) ==
    {k \in 1..Len(rpc.callers) : rpc.callers[k].state = state}

\* getNewAddress(params, smsgAddress) up to its first await: getnewaddress
\* is on its way.
getNewAddress(r, params, smsgAddress) ==
    LET called == CoreRpcService_call(r, "getnewaddress", params)
    IN  [called EXCEPT
            !.callers =
                Append(@, [op |-> "getNewAddress", argument |-> smsgAddress,
                           smsgAddress |-> OrDefault(smsgAddress, TRUE),
                           state |-> "getnewaddress",
                           first |-> Len(called.invocations), second |-> 0,
                           response |-> "", value |-> << >>])]

\* A caller invokes getNewAddress, with or without the smsgAddress argument.
GetNewAddressBegin ==
    /\ Len(rpc.callers) < MaxAddressCalls
    /\ \E smsgAddress \in Optional(BOOLEAN) :
        rpc' = getNewAddress(rpc, << >>, smsgAddress)
    /\ UNCHANGED dataVars

GetNewAddressResume_Always ==
    /\ \E k \in Callers("getnewaddress") :
        LET n == rpc.callers[k].first
        IN  /\ Settled(n)
            /\ rpc' =
                IF Invocation(n).state = "rejected"
                THEN [rpc EXCEPT !.callers[k].state = "rejected",
                                 !.callers[k].value = Invocation(n).value]
                ELSE LET called == CoreRpcService_call(rpc, "smsgaddlocaladdress",
                                                       <<Invocation(n).value>>)
                     IN  [called EXCEPT
                             !.callers[k].state = "smsgaddlocaladdress",
                             !.callers[k].response = Invocation(n).value,
                             !.callers[k].second = Len(called.invocations)]
    /\ UNCHANGED dataVars

\* getNewAddress after the await of getnewaddress: it fails with the failure
\* of the call, or has the response and, if smsgAddress, calls
\* smsgaddlocaladdress with it, or else returns it.
GetNewAddressResume ==
    /\ \E k \in Callers("getnewaddress") :
        LET n == rpc.callers[k].first
        IN  /\ Settled(n)
            /\ rpc' =
                IF Invocation(n).state = "rejected"
                THEN [rpc EXCEPT !.callers[k].state = "rejected",
                                 !.callers[k].value = Invocation(n).value]
                ELSE IF rpc.callers[k].smsgAddress
                THEN LET called == CoreRpcService_call(rpc, "smsgaddlocaladdress",
                                                       <<Invocation(n).value>>)
                     IN  [called EXCEPT
                             !.callers[k].state = "smsgaddlocaladdress",
                             !.callers[k].response = Invocation(n).value,
                             !.callers[k].second = Len(called.invocations)]
                ELSE [rpc EXCEPT !.callers[k].state = "resolved",
                                 !.callers[k].response = Invocation(n).value,
                                 !.callers[k].value = Invocation(n).value]
    /\ UNCHANGED dataVars

\* getNewAddress after the await of smsgaddlocaladdress: it fails with the
\* failure of that call, or returns the response of getnewaddress.
GetNewAddressReturn ==
    /\ \E k \in Callers("smsgaddlocaladdress") :
        LET n == rpc.callers[k].second
        IN  /\ Settled(n)
            /\ rpc' =
                IF Invocation(n).state = "rejected"
                THEN [rpc EXCEPT !.callers[k].state = "rejected",
                                 !.callers[k].value = Invocation(n).value]
                ELSE [rpc EXCEPT !.callers[k].state = "resolved",
                                 !.callers[k].value = rpc.callers[k].response]
    /\ UNCHANGED dataVars

\* Invocations of getNewAddress, several of them in flight
NextAddress ==
    \/ GetNewAddressBegin
    \/ Post
    \/ Then
    \/ Catch
    \/ GetNewAddressResume
    \/ GetNewAddressReturn

SpecAddress == Init /\ [][NextAddress]_vars

----------------------------------------------------------------------------
(* CoreRpcService.signMessage, CoreRpcService.verifyMessage *)

\* A string is the sequence of its characters.  The messages signed: strings,
\* objects of string members (in the order of their keys), and undefined.
Undefined == [type |-> "undefined"]

String(chars) == [type |-> "string", chars |-> chars]

Object(members) == [type |-> "object", members |-> members]

Messages ==
    { String(<< >>), String(<<"b", "a">>), String(<<"a", "b">>),
      Object(<<[key |-> <<"b">>, value |-> <<"a">>]>>),
      Object(<<[key |-> <<"a">>, value |-> <<"b">>]>>),
      Object(<<[key |-> <<"a">>, value |-> <<"b", "a">>],
               [key |-> <<"b">>, value |-> << >>]>>),
      Undefined }

SignAddresses == {"pAddress"}

Signatures == {"signature"}

\* The UTF-16 code unit of a character.
charCodeAt(char) ==
    CASE char = "\"" -> 34
      [] char = "," -> 44
      [] char = ":" -> 58
      [] char = "a" -> 97
      [] char = "b" -> 98
      [] char = "{" -> 123
      [] char = "}" -> 125

Quoted(chars) == <<"\"">> \o chars \o <<"\"">>

RECURSIVE StringifyMembers(_)
StringifyMembers(members) ==
    IF members = << >>
    THEN << >>
    ELSE LET member == Head(members)
             text == Quoted(member.key) \o <<":">> \o Quoted(member.value)
         IN  IF Len(members) = 1
             THEN text
             ELSE text \o <<",">> \o StringifyMembers(Tail(members))

\* JSON.stringify(message): the JSON text of a string or an object
\* (undefined has none).
JSONstringify(message) ==
    IF message.type = "string"
    THEN Quoted(message.chars)
    ELSE <<"{">> \o StringifyMembers(message.members) \o <<"}">>

RECURSIVE InsertSorted(_, _)
InsertSorted(char, sorted) ==
    IF sorted = << >>
    THEN <<char>>
    ELSE IF charCodeAt(char) <= charCodeAt(Head(sorted))
    THEN <<char>> \o sorted
    ELSE <<Head(sorted)>> \o InsertSorted(char, Tail(sorted))

\* Array.prototype.sort() on the characters: ascending code units.
RECURSIVE sort(_)
sort(chars) ==
    IF chars = << >> THEN << >> ELSE InsertSorted(Head(chars), sort(Tail(chars)))

\* Array.prototype.toString(): the elements joined by commas.
RECURSIVE toString(_)
toString(chars) ==
    IF Len(chars) <= 1
    THEN chars
    ELSE <<Head(chars), ",">> \o toString(Tail(chars))

signableMessage_Unsorted(message) == toString(JSONstringify(message))

\* JSON.stringify(message).split('').sort().toString()
signableMessage(message) == toString(sort(JSONstringify(message)))

\* A caller whose message has no JSON text: split is read from undefined.
Thrown(r, op, address, message) ==
    [r EXCEPT
        !.callers =
            Append(@, [op |-> op, address |-> address, message |-> message,
                       state |-> "rejected", first |-> 0,
                       value |-> [name |-> "TypeError",
                                  message |-> "Cannot read property 'split' of undefined"]])]

Awaiting(called, op, address, message) ==
    [called EXCEPT
        !.callers =
            Append(@, [op |-> op, address |-> address, message |-> message,
                       state |-> "call", first |-> Len(called.invocations),
                       value |-> << >>])]

\* signMessage(address, message) up to its await
signMessage(r, address, message) ==
    IF message = Undefined
    THEN Thrown(r, "signMessage", address, message)
    ELSE Awaiting(CoreRpcService_call(r, "signmessage",
                                      <<address, signableMessage(message)>>),
                  "signMessage", address, message)

verifyMessage_Unsorted(r, address, signature, message) ==
    IF message = Undefined
    THEN Thrown(r, "verifyMessage", address, message)
    ELSE Awaiting(CoreRpcService_call(r, "verifymessage",
                                      <<address, signature,
                                        toString(JSONstringify(message))>>),
                  "verifyMessage", address, message)

\* verifyMessage(address, signature, message) up to its await
verifyMessage(r, address, signature, message) ==
    IF message = Undefined
    THEN Thrown(r, "verifyMessage", address, message)
    ELSE Awaiting(CoreRpcService_call(r, "verifymessage",
                                      <<address, signature,
                                        signableMessage(message)>>),
                  "verifyMessage", address, message)

SignMessage ==
    /\ Len(rpc.callers) < MaxSignCalls
    /\ \E address \in SignAddresses, message \in Messages :
        rpc' = signMessage(rpc, address, message)
    /\ UNCHANGED dataVars

VerifyMessage ==
    /\ Len(rpc.callers) < MaxSignCalls
    /\ \E address \in SignAddresses, signature \in Signatures,
          message \in Messages :
        rpc' = verifyMessage(rpc, address, signature, message)
    /\ UNCHANGED dataVars

\* return await this.call(...): the caller settles as its call did.
SignReturn ==
    /\ \E k \in Callers("call") :
        LET n == rpc.callers[k].first
        IN  /\ Settled(n)
            /\ rpc' = [rpc EXCEPT !.callers[k].state = Invocation(n).state,
                                  !.callers[k].value = Invocation(n).value]
    /\ UNCHANGED dataVars

\* Signing and verifying, several invocations in flight
NextSign ==
    \/ SignMessage
    \/ VerifyMessage
    \/ Post
    \/ Then
    \/ Catch
    \/ SignReturn

SpecSign == Init /\ [][NextSign]_vars

----------------------------------------------------------------------------
(* CoreRpcService.signRawTransactionWithKey, CoreRpcService.getRawTransaction *)

\* The arguments of the two methods; an optional one may be left out.
RawTransactionArguments ==
    [hexstring : {"hexstring"}, privkeys : {"privkeys"},
     prevtxs : Optional({"prevtxs"}), sighashtype : Optional({"ALL"})]

TransactionArguments ==
    [txid : {"txid"}, verbose : Optional(BOOLEAN),
     blockhash : Optional({"blockhash"})]

\* A method that has built its params and awaits its call.
AwaitingCall(called, op, arguments) ==
    [called EXCEPT
        !.callers =
            Append(@, [op |-> op, arguments |-> arguments, state |-> "call",
                       first |-> Len(called.invocations), value |-> << >>])]

\* signRawTransactionWithKey: params has hexstring and privkeys, and then
\* each of prevtxs and sighashtype that is given (and truthy) is pushed.
signRawTransactionWithKey(r, arguments) ==
    LET params == <<arguments.hexstring, arguments.privkeys>>
                      \o arguments.prevtxs \o arguments.sighashtype
    IN  AwaitingCall(CoreRpcService_call(r, "signrawtransactionwithkey", params),
                     "signRawTransactionWithKey", arguments)

\* getRawTransaction: params has txid, and then each of verbose and blockhash
\* that is not undefined is pushed.
getRawTransaction(r, arguments) ==
    LET params == <<arguments.txid>> \o arguments.verbose \o arguments.blockhash
    IN  AwaitingCall(CoreRpcService_call(r, "getrawtransaction", params),
                     "getRawTransaction", arguments)

SignRawTransactionWithKey ==
    /\ Len(rpc.callers) < MaxRawCalls
    /\ \E arguments \in RawTransactionArguments :
        rpc' = signRawTransactionWithKey(rpc, arguments)
    /\ UNCHANGED dataVars

GetRawTransaction ==
    /\ Len(rpc.callers) < MaxRawCalls
    /\ \E arguments \in TransactionArguments :
        rpc' = getRawTransaction(rpc, arguments)
    /\ UNCHANGED dataVars

\* Raw transactions signed and fetched
NextRaw ==
    \/ SignRawTransactionWithKey
    \/ GetRawTransaction
    \/ Post
    \/ Then
    \/ Catch
    \/ SignReturn

SpecRaw == Init /\ [][NextRaw]_vars

----------------------------------------------------------------------------
(* generate(LISTINGITEM) *)

\* GenerateListingItemParams
ListingItemParams ==
    {flags @@ [listingItemTemplateHash |-> h, seller |-> NoAddress] :
        flags \in GenerateFlags,
        h \in {NoHash} \cup {t.hash : t \in db["listing_item_templates"]}}

GenerateListingItemsStep ==
    /\ pc = "generateListingItems"
    /\ i > 0
    /\ \E r \in {generateListingItem(Store, call.generateParams)} :
        /\ Commit(r.S)
        /\ IF r.ok
           THEN /\ items' = Append(items, r.value)
                /\ i' = i - 1
                /\ UNCHANGED <<pc, call, ret>>
           ELSE Reject(r.value)
    /\ UNCHANGED <<calls, rpc>>

GenerateListingItemsReturn ==
    /\ pc = "generateListingItems"
    /\ i <= 0
    /\ Resolve(generateResponse(items, call.withRelated))
    /\ UNCHANGED <<db, seq, wallet, faker, trace, calls, rpc>>

----------------------------------------------------------------------------
(* generate(ACTIONMESSAGE) *)

\* GenerateActionMessageParams
ActionMessageParams ==
    [generateMessageInfo : BOOLEAN, generateMessageEscrow : BOOLEAN,
     generateMessageData : BOOLEAN, generateMessageObjectsAmount : {0, 1},
     action : {"MP_ITEM_ADD"}, listingItemId : {Null}, seller : {NoAddress}]

\* The message objects of the request, generateMessageObjectsAmount of them.
RECURSIVE MessageObjects(_, _)
MessageObjects(amount, seller) ==
    IF amount > 0
    THEN <<[dataId |-> "seller", dataValue |-> seller]>>
             \o MessageObjects(amount - 1, seller)
    ELSE << >>

\* generateActionMessages: the create request, built once before the loop.
actionMessageCreateRequest(market, generateParams) ==
    [action |-> generateParams.action,
     listing_item_id |-> generateParams.listingItemId,
     info |-> IF generateParams.generateMessageInfo
              THEN <<[address |-> generateParams.seller]>> ELSE << >>,
     escrow |-> IF generateParams.generateMessageEscrow
                THEN <<[type |-> "escrow"]>> ELSE << >>,
     data |-> IF generateParams.generateMessageData
              THEN <<[from |-> generateParams.seller, to |-> market.address]>>
              ELSE << >>,
     objects |-> MessageObjects(generateParams.generateMessageObjectsAmount,
                                generateParams.seller)]

RECURSIVE InsertRelated(_, _, _, _)
InsertRelated(S, table, actionMessageId, requests) ==
    IF requests = << >> THEN S
    ELSE InsertRelated(Insert(S, table,
                              [action_message_id |-> actionMessageId]
                                  @@ Head(requests)),
                       table, actionMessageId, Tail(requests))

\* ActionMessageService.create: the action message, then what the request
\* gives of its info, escrow, data and objects.
ActionMessageService_create(S, request) ==
    LET S1 == Insert(S, "action_messages",
                     [action |-> request.action,
                      listing_item_id |-> request.listing_item_id])
        id == LastId(S1, "action_messages")
        S2 == InsertRelated(S1, "message_infos", id, request.info)
        S3 == InsertRelated(S2, "message_escrows", id, request.escrow)
        S4 == InsertRelated(S3, "message_datas", id, request.data)
    IN  InsertRelated(S4, "message_objects", id, request.objects)

\* One iteration of the loop of generateActionMessages.
generateActionMessage(S, request) ==
    LET S1 == ActionMessageService_create(S, request)
    IN  Result(S1, TRUE,
               Row(S1.db, "action_messages", LastId(S1, "action_messages")))

\* generateActionMessages before its loop: the default market is read.
GenerateActionMessagesRequest ==
    /\ pc = "generateActionMessages"
    /\ IF getDefault(db, "markets") = NotFound
       THEN Reject("NotFound")
       ELSE /\ pc' = "generateActionMessagesLoop"
            /\ UNCHANGED <<call, i, items, ret>>
    /\ UNCHANGED <<db, seq, wallet, faker, trace, calls, rpc>>

GenerateActionMessagesStep ==
    /\ pc = "generateActionMessagesLoop"
    /\ i > 0
    /\ \E r \in {generateActionMessage(
                     Store,
                     actionMessageCreateRequest(getDefault(db, "markets"),
                                                call.generateParams))} :
        /\ Commit(r.S)
        /\ items' = Append(items, r.value)
        /\ i' = i - 1
    /\ UNCHANGED <<pc, call, ret, calls, rpc>>

GenerateActionMessagesReturn ==
    /\ pc = "generateActionMessagesLoop"
    /\ i <= 0
    /\ Resolve(generateResponse(items, call.withRelated))
    /\ UNCHANGED <<db, seq, wallet, faker, trace, calls, rpc>>

----------------------------------------------------------------------------
(* generate *)

\* body.amount: negative, zero and positive
BodyAmounts == (-1)..MaxAmount

\* body.generateParams as the params class of the model reads them: for
\* each model, the params that choose what is generated along with it (the
\* other params are left out of the body).
GenerateParams(model) ==
    CASE model = "LISTINGITEMTEMPLATE" ->
            {gp \in TemplateParams : gp.profileId = Null /\ gp.marketId = Null}
      [] model = "ACTIONMESSAGE" ->
            {gp \in ActionMessageParams :
                gp.generateMessageEscrow = gp.generateMessageInfo
                /\ gp.generateMessageData = gp.generateMessageInfo}
      [] model = "LISTINGITEM" ->
            {gp \in ListingItemParams : gp.listingItemTemplateHash = NoHash}
      [] model = "BID" ->
            {gp \in BidParams :
                gp.action = NoAction
                /\ gp.listingItemHash # Digest(<<"no item">>)}
      [] model = "ORDER" ->
            {gp \in OrderParams :
                gp.generateOrderItem
                /\ gp.generateListingItemTemplate = gp.generateListingItem}
      [] model = "PROPOSAL" ->
            {gp \in ProposalParams :
                ~gp.generatePastProposal /\ gp.listingItemHash = NoHash
                /\ ~gp.generateListingItemTemplate}
      [] OTHER -> {<< >>}

\* The client calls generate; body.withRelated may be left out.
Generate ==
    \E model \in CreatableModel, amount \in BodyAmounts,
       withRelated \in Optional(BOOLEAN) :
        \E generateParams \in GenerateParams(model) :
            Begin([op |-> "generate", model |-> model, amount |-> amount,
                   body |-> [withRelated |-> withRelated],
                   withRelated |-> OrDefault(withRelated, TRUE),
                   generateParams |-> generateParams],
                  "generate", amount)

\* TestDataService.generate: the switch on body.model
GenerateSwitch ==
    /\ pc = "generate"
    /\ CASE call.model = "LISTINGITEMTEMPLATE" ->
                /\ pc' = "generateListingItemTemplates"
                /\ UNCHANGED <<call, i, items, ret>>
         [] call.model = "ACTIONMESSAGE" ->
                /\ pc' = "generateActionMessages"
                /\ UNCHANGED <<call, i, items, ret>>
         [] call.model = "LISTINGITEM" ->
                /\ pc' = "generateListingItems"
                /\ UNCHANGED <<call, i, items, ret>>
         [] call.model = "PROFILE" ->
                /\ pc' = "generateProfiles"
                /\ UNCHANGED <<call, i, items, ret>>
         [] call.model = "BID" ->
                /\ pc' = "generateBids"
                /\ UNCHANGED <<call, i, items, ret>>
         [] call.model = "ORDER" ->
                /\ pc' = "generateOrders"
                /\ UNCHANGED <<call, i, items, ret>>
         [] call.model = "PROPOSAL" ->
                /\ pc' = "generateProposals"
                /\ UNCHANGED <<call, i, items, ret>>
         [] OTHER -> Reject(MessageException("Not implemented"))
    /\ UNCHANGED <<db, seq, wallet, faker, trace, calls, rpc>>

\* What a call of generate does once it has started
GenerateSteps ==
    \/ GenerateSwitch
    \/ GenerateListingItemTemplatesStep
    \/ GenerateListingItemTemplatesReturn
    \/ GenerateActionMessagesRequest
    \/ GenerateActionMessagesStep
    \/ GenerateActionMessagesReturn
    \/ GenerateListingItemsStep
    \/ GenerateListingItemsReturn
    \/ GenerateProfilesStep
    \/ GenerateProfilesReturn
    \/ GenerateBidsItem
    \/ GenerateBidsStep
    \/ GenerateBidsReturn
    \/ GenerateOrdersBid
    \/ GenerateOrdersStep
    \/ GenerateOrdersReturn
    \/ GenerateProposalsItem
    \/ GenerateProposalsStep
    \/ GenerateProposalsReturn

\* generate, for every model
NextGenerate ==
    \/ Generate
    \/ GenerateSteps

SpecGenerate == Init /\ [][NextGenerate]_vars

\* The event loop runs a continuation once what it awaits has settled, and
\* the store answers every operation: a call that can take a step takes one.
SpecGenerateFair == SpecGenerate /\ WF_vars(GenerateSteps)

----------------------------------------------------------------------------
(* Properties of the test-data scenario (Spec) *)

\* The last call has returned, and no other was started since.
Returned(op) == pc = "idle" /\ ret.op = op

ReturnedGenerate(model) ==
    /\ Returned("generate")
    /\ ret.request.model = model
    /\ ret.status = "resolved"

\* The templates a generate(LISTINGITEMTEMPLATE) call returned, as the caller
\* has them (with withRelated) or reads them by the ids it got.
ReturnedTemplates ==
    [k \in 1..Len(ret.value) |->
        IF ret.request.withRelated THEN ret.value[k]
        ELSE ListingItemTemplateResource(db, ret.value[k])]

C3_ItemHashIsTemplateHash ==
    (ReturnedGenerate("LISTINGITEMTEMPLATE")
        /\ ret.request.generateParams.generateListingItem) =>
        \A k \in 1..Len(ret.value) :
            /\ Len(ReturnedTemplates[k].ListingItems) = 1
            /\ ReturnedTemplates[k].hash = ReturnedTemplates[k].ListingItems[1].hash

C3_Witness ==
    /\ ReturnedGenerate("LISTINGITEMTEMPLATE")
    /\ ret.request.generateParams.generateListingItem
    /\ ret.request.generateParams.generateItemInformation
    /\ Len(ret.value) = 2

\* C4: a generated template belongs to the profile profileId names, or to
\* the default profile when profileId is null; its listing item is posted to
\* the market marketId names, or to the default market when marketId is null.
C4_ProfileAndMarket ==
    ReturnedGenerate("LISTINGITEMTEMPLATE") =>
        LET gp == ret.request.generateParams
        IN  \A k \in 1..Len(ret.value) :
            LET t == ReturnedTemplates[k]
            IN  /\ t.Profile # NotFound
                /\ gp.profileId # Null => t.Profile.id = gp.profileId
                /\ gp.profileId = Null => t.Profile = getDefault(db, "profiles")
                /\ gp.generateListingItem =>
                    /\ gp.marketId # Null => t.ListingItems[1].marketId = gp.marketId
                    /\ gp.marketId = Null =>
                          t.ListingItems[1].marketId = getDefault(db, "markets").id

C4_Witness ==
    /\ ReturnedGenerate("LISTINGITEMTEMPLATE")
    /\ Len(ret.value) > 0
    /\ ret.request.generateParams.generateListingItem
    /\ ret.request.generateParams.marketId # Null
    /\ ret.request.generateParams.profileId # Null
    /\ ret.request.generateParams.profileId # getDefault(db, "profiles").id

\* C5: a listing item just generated with its template has no bids and
\* exactly one action message.
C5_FreshItemHasOneActionMessage ==
    (ReturnedGenerate("LISTINGITEMTEMPLATE")
        /\ ret.request.generateParams.generateListingItem) =>
        \A k \in 1..Len(ret.value) :
            LET listingItem == ListingItemResource(
                                   db, ReturnedTemplates[k].ListingItems[1].id)
            IN  /\ Len(listingItem.Bids) = 0
                /\ Len(listingItem.ActionMessages) = 1


----------------------------------------------------------------------------
(* Properties of cleaning (SpecClean) *)

RECURSIVE Select(_, _)
\* The events of a trace with one of the given operations, in order.
Select(events, ops) ==
    IF events = << >> THEN << >>
    ELSE (IF Head(events).op \in ops THEN <<Head(events)>> ELSE << >>)
            \o Select(Tail(events), ops)

IsPrefix(a, b) == Len(a) <= Len(b) /\ \A k \in 1..Len(a) : a[k] = b[k]

Deletions == [k \in 1..Len(tablesToClean) |-> Event("delete", tablesToClean[k], Null)]

Seedings ==
    << Event("seed", "item_categories", Null), Event("seed", "profiles", Null),
       Event("seed", "markets", Null) >>

Cleaning == (pc # "idle" /\ call.op = "clean") \/ Returned("clean")

CleanSeeds == IF pc = "idle" THEN ret.request.seed ELSE call.seed

----------------------------------------------------------------------------
(* Properties of bids and orders (SpecOrder) *)

\* The request of the call in progress or, between calls, of the last one.
Request == IF pc = "idle" THEN ret.request ELSE call

Generating(model) ==
    /\ Request.op = "generate"
    /\ Request.model = model

\* The positions of the trace with an operation on a table.
Positions(op, table) ==
    {k \in 1..Len(trace) : trace[k].op = op /\ trace[k].table = table}

\* The bid the orders of the call are made from: the one the call generated,
\* or the one it read first.
OrderBid ==
    IF Request.generateParams.generateBid
    THEN IF Positions("insert", "bids") = {} THEN Null
         ELSE trace[CHOOSE k \in Positions("insert", "bids") : TRUE].id
    ELSE IF Positions("findOne", "bids") = {} THEN Null
         ELSE trace[1].id

\* C7: in generate(ORDER) an order is created only after its bid exists.
\* With generateBid exactly one bid is generated, with action MPA_ACCEPT,
\* before any order; without generateBid no bid is created and the bid read
\* is the one of bidId.  All orders of the call are made from that one bid.
C7_OrdersAfterTheirBid ==
    Generating("ORDER") =>
        /\ IF Request.generateParams.generateBid
           THEN /\ Cardinality(Positions("insert", "bids")) <= 1
                /\ (pc \in {"generateOrdersLoop", "idle"} /\ ret.status # "rejected")
                       => Cardinality(Positions("insert", "bids")) = 1
           ELSE /\ Positions("insert", "bids") = {}
                /\ Positions("findOne", "bids") # {}
                       => OrderBid = Request.generateParams.bidId
        /\ \A k \in Positions("findOne", "bids") : trace[k].id = OrderBid
        /\ \A k \in Positions("insert", "orders") :
            LET bid == Row(db, "bids", OrderBid)
                order == OrderResource(db, trace[k].id)
            IN  /\ bid # NotFound
                /\ Request.generateParams.generateBid => bid.action = "MPA_ACCEPT"
                /\ \A j \in Positions("insert", "bids") : j < k
                /\ \E j \in Positions("findOne", "bids") : j < k
                /\ order.buyer = bid.bidder
                /\ \A n \in 1..Len(order.OrderItems) :
                       order.OrderItems[n].bid_id = bid.id

C7_Witness ==
    /\ Returned("generate")
    /\ Generating("ORDER")
    /\ ret.status = "resolved"
    /\ ret.request.generateParams.generateBid
    /\ ret.request.generateParams.generateOrderItem
    /\ Cardinality(Positions("insert", "orders")) >= 2
    /\ Cardinality(db["bids"]) >= 2

\* The hash the bids of the call are generated for.
BidHash == Request.generateParams.listingItemHash

\* C9: in generate(BID) every lookup of the listing item by the hash gives
\* the same listing item, the one that has the hash, and no listing item is
\* created or changed between the lookups; so all bids of the call are for
\* the same listing item.
C9_BidsOfOneListingItem ==
    (Generating("BID") /\ pc # "generateBids" /\ BidHash # NoHash) =>
        LET listingItem == findOneByHash(db, "listing_items", BidHash)
        IN  /\ \A k \in Positions("findOneByHash", "listing_items") :
                   /\ trace[k].id = listingItem.id
                   /\ \A j \in Positions("insert", "listing_items") : j < k
            /\ \A k \in Positions("insert", "bids") :
                   Row(db, "bids", trace[k].id).listing_item_id = listingItem.id

C9_Witness ==
    /\ Returned("generate")
    /\ Generating("BID")
    /\ ret.status = "resolved"
    /\ BidHash # NoHash
    /\ ~ret.request.generateParams.generateListingItem
    /\ Cardinality(Positions("findOneByHash", "listing_items")) >= 2
    /\ Cardinality(Positions("insert", "bids")) >= 2
    /\ \A k \in Positions("insert", "bids") :
           Row(db, "bids", trace[k].id).listing_item_id = 1

----------------------------------------------------------------------------
(* Properties of proposals (SpecProposal) *)

\* The store operations of one proposal with its votes, in the order the
\* claim gives: the proposal and its two options, the votes, the empty
\* result and its two option results, the recalculation, the read.
ProposalSteps(voteCount) ==
    << <<"insert", "proposals">>, <<"insert", "proposal_options">>,
       <<"insert", "proposal_options">> >>
    \o [k \in 1..voteCount |-> <<"insert", "votes">>]
    \o << <<"insert", "proposal_results">>,
          <<"insert", "proposal_option_results">>,
          <<"insert", "proposal_option_results">>,
          <<"update", "proposal_results">>, <<"findOne", "proposals">> >>

\* The proposals the call has generated so far, as it read them.
GeneratedProposals ==
    IF pc = "idle" THEN ret.value ELSE items

\* The sum of the weights of a proposal's (one) result.
ResultWeight(proposal) ==
    LET results == proposal.ProposalResults[1].ProposalOptionResults
    IN  results[1].weight + results[2].weight

\* C8: generate(PROPOSAL) makes each proposal in this order: the proposal,
\* all its voteCount votes, its empty result, the recalculation of the
\* result, the proposal read again; and the proposal it returns is the one
\* read after the recalculation (its result counts all the votes).
C8_ProposalStepsInOrder ==
    (Generating("PROPOSAL") /\ ~(pc = "idle" /\ ret.status = "rejected")) =>
        LET voteCount == Request.generateParams.voteCount
            steps == ProposalSteps(voteCount)
            made == Cardinality(Positions("insert", "proposals"))
        IN  /\ Len(trace) = made * Len(steps)
            /\ \A k \in 1..Len(trace) :
                LET n == ((k - 1) % Len(steps)) + 1
                    first == k - n + 1
                IN  /\ <<trace[k].op, trace[k].table>> = steps[n]
                    /\ trace[k].table = "proposals" => trace[k].id = trace[first].id
                    /\ trace[k].table = "votes" =>
                         Row(db, "proposal_options",
                             Row(db, "votes", trace[k].id).proposal_option_id
                            ).proposal_id = trace[first].id
                    /\ trace[k].table = "proposal_results" =>
                         Row(db, "proposal_results", trace[k].id).proposal_id
                             = trace[first].id
            /\ Len(GeneratedProposals) = made
            /\ \A n \in 1..made :
                LET id == trace[(n - 1) * Len(steps) + 1].id
                    proposal == ProposalResource(db, id)
                IN  /\ Len(proposal.ProposalResults) = 1
                    /\ ResultWeight(proposal) = voteCount
                    /\ GeneratedProposals[n] =
                          IF pc = "idle" /\ ~Request.withRelated THEN id
                          ELSE proposal

C8_Witness ==
    /\ Returned("generate")
    /\ Generating("PROPOSAL")
    /\ ret.status = "resolved"
    /\ ret.request.withRelated
    /\ ret.request.generateParams.voteCount = 2
    /\ Len(ret.value) = 2
    /\ \A n \in 1..2 :
        /\ ResultWeight(ret.value[n]) = 2
        /\ ret.value[n].ProposalResults[1].ProposalOptionResults[1].weight = 1

----------------------------------------------------------------------------
(* Properties of the JSON-RPC client (SpecRpc) *)

\* The POSTs that carry the request of an invocation.
PostsOf(n) ==
    {k \in 1..Len(rpc.posts) : rpc.posts[k].id = Invocation(n).id}

Finished == Invocations("resolved") \cup Invocations("rejected")

\* What the catch handler of an invocation got: the failure of the POST, or
\* what the then handler threw.
Caught(n) ==
    IF Invocation(n).response.failed
    THEN [name |-> "Error", message |-> Invocation(n).response.statusMessage]
    ELSE then(Invocation(n).response).value

C18_Non200IsHttpException ==
    \A n \in Finished :
        (~Invocation(n).response.failed /\ Invocation(n).response.statusCode # 200)
            => /\ Invocation(n).state = "rejected"
               /\ Invocation(n).value.name = "HttpException"
               /\ Invocation(n).value.code = Invocation(n).response.statusCode

\* C19: a call resolves only for a response of status 200 whose JSON-RPC
\* body has no error, and with the result of that body; a response of
\* status 200 whose body has an error makes the call fail with an
\* InternalServerException of the error's code and message.
C19_ResultOnlyWithoutError ==
    \A n \in Finished :
        LET response == Invocation(n).response
        IN  /\ Invocation(n).state = "resolved" =>
                /\ ~response.failed
                /\ response.statusCode = 200
                /\ response.content.object
                /\ response.content.error = NoError
                /\ Invocation(n).value = response.content.result
            /\ ( /\ ~response.failed
                 /\ response.statusCode = 200
                 /\ response.content.error # NoError ) =>
                /\ Invocation(n).state = "rejected"
                /\ Invocation(n).value =
                       [name |-> "InternalServerException",
                        body |-> response.content.error]

C19_Witness ==
    \E n \in Invocations("resolved"), m \in Invocations("rejected") :
        /\ Invocation(n).value = "value"
        /\ Invocation(m).response.statusCode = 200
        /\ Invocation(m).response.content.error # NoError

\* C20: the invocations of call take the request ids 1, 2, 3, ... in the
\* order they start in, each its own, whatever becomes of them and however
\* they overlap.
C20_RequestIdsInStartOrder ==
    /\ rpc.RPC_REQUEST_ID = Len(rpc.invocations) + 1
    /\ \A n \in 1..Len(rpc.invocations) :
        /\ Invocation(n).id = n
        /\ rpc.posts[n].id = n
        /\ \A m \in 1..Len(rpc.invocations) :
               m # n => Invocation(m).id # Invocation(n).id

C20_Witness ==
    /\ Len(rpc.invocations) = 2
    /\ Invocation(1).state = "then"
    /\ Invocation(2).state = "rejected"
    /\ Invocation(2).id = Invocation(1).id + 1


----------------------------------------------------------------------------
(* Properties of getNewAddress (SpecAddress) *)

Caller(k) == rpc.callers[k]

SmsgPosts ==
    {n \in 1..Len(rpc.posts) : rpc.posts[n].method = "smsgaddlocaladdress"}

\* C13: getNewAddress returns the address that getnewaddress returned.  With
\* smsgAddress true (given or left out) it calls smsgaddlocaladdress with
\* exactly that address as its only parameter, after getnewaddress has
\* returned, and resolves only after that call has returned; with
\* smsgAddress false no smsgaddlocaladdress call is made.
C13_NewAddressAndItsSmsgRegistration ==
    /\ \A k \in 1..Len(rpc.callers) :
        LET c == Caller(k)
        IN  /\ Invocation(c.first).method = "getnewaddress"
            /\ c.state = "resolved" =>
                /\ Invocation(c.first).state = "resolved"
                /\ c.value = Invocation(c.first).value
                /\ c.smsgAddress =>
                    /\ c.second # 0
                    /\ Invocation(c.second).state = "resolved"
            /\ c.second # 0 =>
                /\ c.smsgAddress
                /\ c.second > c.first
                /\ Invocation(c.first).state = "resolved"
                /\ Invocation(c.second).method = "smsgaddlocaladdress"
                /\ Invocation(c.second).params = <<Invocation(c.first).value>>
                /\ rpc.posts[c.second].params = <<Invocation(c.first).value>>
            /\ ~c.smsgAddress => c.second = 0
    /\ Cardinality(SmsgPosts)
         = Cardinality({k \in 1..Len(rpc.callers) : Caller(k).second # 0})
    /\ \A k, l \in 1..Len(rpc.callers) :
        (k # l /\ Caller(k).second # 0) => Caller(k).second # Caller(l).second

\* One getNewAddress without the argument and one with smsgAddress false have
\* both returned an address.
C13_Witness ==
    \E k, l \in 1..Len(rpc.callers) :
        /\ Caller(k).argument = << >>
        /\ Caller(k).state = "resolved"
        /\ Caller(k).second # 0
        /\ Caller(l).argument = <<FALSE>>
        /\ Caller(l).state = "resolved"
        /\ Caller(l).value # Caller(k).value


----------------------------------------------------------------------------
(* Properties of signMessage and verifyMessage (SpecSign) *)

Submitted(k) == rpc.posts[Caller(k).first]

\* C15: verifyMessage(a, s, m) submits to verifymessage exactly the signable
\* string that signMessage(a, m) submits to signmessage (with the same
\* address before it), and a message that one of them cannot submit the other
\* cannot submit either.
C15_VerifySubmitsWhatSignSubmitted ==
    \A k, l \in 1..Len(rpc.callers) :
        ( /\ Caller(k).op = "signMessage"
          /\ Caller(l).op = "verifyMessage"
          /\ Caller(k).address = Caller(l).address
          /\ Caller(k).message = Caller(l).message )
        =>  /\ (Caller(k).first = 0) <=> (Caller(l).first = 0)
            /\ Caller(k).first # 0 =>
                /\ Submitted(k).method = "signmessage"
                /\ Submitted(l).method = "verifymessage"
                /\ Len(Submitted(k).params) = 2
                /\ Len(Submitted(l).params) = 3
                /\ Submitted(l).params[1] = Submitted(k).params[1]
                /\ Submitted(l).params[3] = Submitted(k).params[2]

\* An object was signed and then verified; the characters of its JSON text
\* are not in ascending order.
C15_Witness ==
    \E k, l \in 1..Len(rpc.callers) :
        /\ k < l
        /\ Caller(k).op = "signMessage"
        /\ Caller(l).op = "verifyMessage"
        /\ Caller(k).message = Caller(l).message
        /\ Caller(k).message.type = "object"
        /\ Caller(k).state = "resolved"
        /\ Caller(l).first # 0
        /\ Submitted(k).params[2] # toString(JSONstringify(Caller(k).message))


----------------------------------------------------------------------------
(* Properties of generate(PROPOSAL) with unsupported parameters (SpecProposal) *)

\* generateListingItemTemplate or generateListingItem is set in the call.
WithItemGeneration(request) ==
    /\ request.op = "generate"
    /\ request.model = "PROPOSAL"
    /\ \/ request.generateParams.generateListingItemTemplate
       \/ request.generateParams.generateListingItem

\* C14: generate(PROPOSAL) with generateListingItemTemplate or
\* generateListingItem set does one thing only: it fails with the
\* NotImplementedException (a MessageException, code 404, 'Not implemented.'),
\* with nothing created or read in the store and the store as it was.
C14_ItemGenerationNotImplemented ==
    [][ WithItemGeneration(call) =>
            /\ pc' = "idle"
            /\ ret'.status = "rejected"
            /\ ret'.request = call
            /\ ret'.value = NotImplementedException
            /\ ret'.value.code = 404
            /\ ret'.value.message = "Not implemented."
            /\ trace = << >>
            /\ UNCHANGED <<db, seq, wallet, faker, trace>> ]_vars

\* A call for two proposals with generateListingItem set has failed, after an
\* earlier call had created proposals.
C14_Witness ==
    /\ pc = "idle"
    /\ WithItemGeneration(ret.request)
    /\ ret.request.generateParams.generateListingItem
    /\ ~ret.request.generateParams.generateListingItemTemplate
    /\ ret.request.amount = 2
    /\ ret.status = "rejected"
    /\ ret.value = NotImplementedException
    /\ db["proposals"] # {}


----------------------------------------------------------------------------
(* Properties of create (SpecCreate) *)

\* The service of each model that create supports, by the service's table.
ServiceOfModel ==
    [LISTINGITEMTEMPLATE |-> "listing_item_templates",
     LISTINGITEM |-> "listing_items",
     ACTIONMESSAGE |-> "action_messages",
     PROFILE |-> "profiles",
     ITEMCATEGORY |-> "item_categories",
     FAVORITEITEM |-> "favorite_items",
     ITEMINFORMATION |-> "item_informations",
     BID |-> "bids",
     PAYMENTINFORMATION |-> "payment_informations",
     ITEMIMAGE |-> "item_images"]

ReturnedCreate ==
    /\ pc = "idle"
    /\ ret.op = "create"

\* C16: a create of a supported model has called the create of one domain
\* service, once, the service of that model, and no other; it returns the
\* record that service made.  A create of any other model (ORDER and PROPOSAL
\* among them) has failed with MessageException('Not implemented'), having
\* called no service and created no record.
C16_CreateRoutesToOneService ==
    ReturnedCreate =>
        LET model == ret.request.model
            created == {k \in 1..Len(trace) : trace[k].op = "create"}
            inserted == {k \in 1..Len(trace) : trace[k].op = "insert"}
        IN  IF model \in DOMAIN ServiceOfModel
            THEN /\ Cardinality(created) = 1
                 /\ \A k \in created \cup inserted :
                        trace[k].table = ServiceOfModel[model]
                 /\ Cardinality(inserted) <= 1
                 /\ ret.status = "resolved" =>
                        /\ Cardinality(inserted) = 1
                        /\ ret.value \in db[ServiceOfModel[model]]
                        /\ ret.value.data = ret.request.data
                        /\ \A k \in inserted : trace[k].id = ret.value.id
                 /\ ret.status = "rejected" => inserted = {}
            ELSE /\ ret.status = "rejected"
                 /\ ret.value = MessageException("Not implemented")
                 /\ trace = << >>

\* A create of an ORDER has failed after a create of a BID had made a bid.
C16_Witness ==
    /\ ReturnedCreate
    /\ ret.request.model = "ORDER"
    /\ ret.status = "rejected"
    /\ trace = << >>
    /\ \E bid \in db["bids"] : bid.data = ret.request.data


----------------------------------------------------------------------------
(* Properties of generate, for every model (SpecGenerate) *)

\* The table of the records of each model that generate supports.
TableOfModel ==
    [LISTINGITEMTEMPLATE |-> "listing_item_templates",
     ACTIONMESSAGE |-> "action_messages",
     LISTINGITEM |-> "listing_items",
     PROFILE |-> "profiles",
     BID |-> "bids",
     ORDER |-> "orders",
     PROPOSAL |-> "proposals"]

\* The ids of the records the call has inserted into a table, in the order
\* of their insertion.
RECURSIVE InsertedIds(_, _)
InsertedIds(events, table) ==
    IF events = << >> THEN << >>
    ELSE (IF Head(events).op = "insert" /\ Head(events).table = table
          THEN <<Head(events).id>> ELSE << >>)
         \o InsertedIds(Tail(events), table)

\* A call of generate for a supported model is in progress or has returned.
GeneratingSupported ==
    /\ Request.op = "generate"
    /\ Request.model \in DOMAIN TableOfModel

ResolvedGenerate ==
    /\ GeneratingSupported
    /\ pc = "idle"
    /\ ret.status = "resolved"

AmountOrNone(n) == IF n > 0 THEN n ELSE 0

\* The counts of C11: a call never creates more than amount records of its
\* model, and one that returns has created exactly amount of them and
\* returns as many entries (none for amount <= 0).
C11_Counts ==
    GeneratingSupported =>
        LET created == InsertedIds(trace, TableOfModel[Request.model])
            n == AmountOrNone(Request.amount)
        IN  /\ Len(created) <= n
            /\ ResolvedGenerate =>
                /\ Len(created) = n
                /\ Len(ret.value) = n
                /\ Request.amount <= 0 => ret.value = << >>

\* C11: for every supported model, generate with amount n creates exactly n
\* records of the model and returns n entries, none and the empty list for
\* n <= 0; and every call of generate comes to its end, whatever n.
C11_GenerateCreatesAmountAndEnds ==
    /\ []C11_Counts
    /\ (pc # "idle") ~> (pc = "idle")

\* A call for -1 proposals has returned the empty list, after a call for two
\* had created two.
C11_Witness ==
    /\ ResolvedGenerate
    /\ Request.model = "PROPOSAL"
    /\ Request.amount = -1
    /\ ret.value = << >>
    /\ Cardinality(db["proposals"]) = 2

\* C12: a generate that returns gives one entry per created record, in the
\* order of creation: when body.withRelated is false the id of the record,
\* and when it is true or left out the object of the record, which has the
\* record's id and its own fields as they are stored.
C12_ObjectsOrIds ==
    ResolvedGenerate =>
        LET table == TableOfModel[Request.model]
            created == InsertedIds(trace, table)
        IN  /\ Len(ret.value) = Len(created)
            /\ \A k \in 1..Len(created) :
                IF Request.body.withRelated = <<FALSE>>
                THEN ret.value[k] = created[k]
                ELSE LET row == Row(db, table, created[k])
                         own == DOMAIN row \cap DOMAIN ret.value[k]
                     IN  /\ ret.value[k].id = created[k]
                         /\ own # {"id"}
                         /\ \A f \in own : ret.value[k][f] = row[f]

\* Two bids were generated with withRelated left out, and returned whole.
C12_Witness ==
    /\ ResolvedGenerate
    /\ Request.model = "BID"
    /\ Request.body.withRelated = << >>
    /\ Len(ret.value) = 2
    /\ ret.value[1].id < ret.value[2].id
    /\ ret.value[1].id \in {bid.id : bid \in db["bids"]}


----------------------------------------------------------------------------
(* Properties of the signable string (SpecSign) *)

Occurrences(char, chars) ==
    Cardinality({n \in 1..Len(chars) : chars[n] = char})

\* Two strings are made of the same characters, each as many times.
SameCharacters(chars, others) ==
    /\ Len(chars) = Len(others)
    /\ \A n \in 1..Len(chars) :
        Occurrences(chars[n], chars) = Occurrences(chars[n], others)

\* The signable string a caller has submitted: the last parameter of its
\* request.
SubmittedSignable(k) == Submitted(k).params[Len(Submitted(k).params)]

\* C21: the signable string depends only on the characters of the JSON text
\* of the message, not on their order: callers of signMessage or
\* verifyMessage whose messages have JSON texts of the same characters submit
\* the same signable string, so that a verifyMessage with the address and the
\* signature of one message sends, for the other message, the very request
\* it sends for the first.
C21_SignableOfCharacterMultiset ==
    \A k, l \in 1..Len(rpc.callers) :
        ( /\ Caller(k).first # 0
          /\ Caller(l).first # 0
          /\ SameCharacters(JSONstringify(Caller(k).message),
                            JSONstringify(Caller(l).message)) )
        =>  /\ SubmittedSignable(k) = SubmittedSignable(l)
            /\ ( /\ Caller(k).op = "verifyMessage"
                 /\ Caller(l).op = "verifyMessage"
                 /\ Caller(k).address = Caller(l).address )
               => Submitted(k).params = Submitted(l).params

\* The object {"b":"a"} was signed, and the signature is being verified for
\* the object {"a":"b"}.
C21_Witness ==
    \E k, l \in 1..Len(rpc.callers) :
        /\ Caller(k).op = "signMessage"
        /\ Caller(l).op = "verifyMessage"
        /\ Caller(k).state = "resolved"
        /\ Caller(l).first # 0
        /\ Caller(k).message.type = "object"
        /\ Caller(l).message.type = "object"
        /\ Caller(k).message # Caller(l).message
        /\ SameCharacters(JSONstringify(Caller(k).message),
                          JSONstringify(Caller(l).message))


----------------------------------------------------------------------------
(* Properties of the raw transaction methods (SpecRaw) *)

\* An argument that was given is at its declared position of the params.
SentAt(params, position, argument) ==
    argument # << >> =>
        /\ Len(params) >= position
        /\ params[position] = argument[1]

\* C22: in signRawTransactionWithKey and getRawTransaction, whichever of the
\* optional arguments are given, each argument that is given is sent at its
\* declared position (hexstring, privkeys, prevtxs, sighashtype; txid,
\* verbose, blockhash), so that a later one never takes the position of an
\* earlier one that was left out.
C22_ArgumentsAtDeclaredPositions ==
    \A k \in 1..Len(rpc.callers) :
        LET arguments == Caller(k).arguments
            params == Submitted(k).params
        IN  /\ Caller(k).op = "signRawTransactionWithKey" =>
                /\ Submitted(k).method = "signrawtransactionwithkey"
                /\ params[1] = arguments.hexstring
                /\ params[2] = arguments.privkeys
                /\ SentAt(params, 3, arguments.prevtxs)
                /\ SentAt(params, 4, arguments.sighashtype)
            /\ Caller(k).op = "getRawTransaction" =>
                /\ Submitted(k).method = "getrawtransaction"
                /\ params[1] = arguments.txid
                /\ SentAt(params, 2, arguments.verbose)
                /\ SentAt(params, 3, arguments.blockhash)

----------------------------------------------------------------------------
(* Properties of cleaning a database that fails (SpecCleanFaultyFair) *)

\* The position in the clean list of the table at which cleanDb failed, 0
\* when it did not fail.
FailedAt ==
    LET failed == Select(trace, {"cleanDb failed"})
    IN  IF failed = << >> THEN 0
        ELSE CHOOSE k \in 1..Len(tablesToClean) : tablesToClean[k] = failed[1].table

\* The seeding steps that were started before clean is at a position.
SeedingsBefore ==
    [seedDefaultCategories |-> 0, seedDefaultProfile |-> 1, seedDefaultMarket |-> 2]

\* What a clean in progress or returned has done: the deletions are those of
\* the list up to the table that failed and no other, a failure is only
\* logged, each seeding step is started whatever happened before it, and
\* a clean that returns has resolved.
C23_Failures ==
    Cleaning =>
        LET deleted == Select(trace, {"delete"})
            failed == Select(trace, {"cleanDb failed"})
            seeded == Select(trace, {"seed"})
        IN  /\ Len(failed) <= 1
            /\ IsPrefix(deleted, Deletions)
            /\ FailedAt > 0 =>
                  /\ Len(deleted) = FailedAt - 1
                  /\ pc # "cleanDb"
            /\ IsPrefix(seeded, Seedings)
            /\ seeded # << >> => CleanSeeds
            /\ pc \in DOMAIN SeedingsBefore =>
                  /\ CleanSeeds
                  /\ Len(seeded) = SeedingsBefore[pc]
            /\ Returned("clean") =>
                  /\ ret.status = "resolved"
                  /\ FailedAt = 0 => deleted = Deletions
                  /\ seeded = IF CleanSeeds THEN Seedings ELSE << >>

\* C23: clean never rejects: when the deletion of a table fails, cleanDb
\* stops at that table (the tables after it are not emptied) and the failure
\* is only logged; with seed = true the three seeding steps are all started,
\* whether cleanDb or an earlier seeding step failed; and every clean that
\* was started resolves.
C23_CleanNeverRejects ==
    /\ []C23_Failures
    /\ (pc # "idle" /\ call.op = "clean") ~> Returned("clean")

\* A clean with seed = true has resolved after the deletion of the fourth
\* table failed and the seeding of the categories failed: the profiles
\* generated before are still there.
C23_Witness ==
    /\ Returned("clean")
    /\ ret.status = "resolved"
    /\ ret.request.seed
    /\ FailedAt = 4
    /\ Select(trace, {"seed failed"}) = <<Event("seed failed", "item_categories", Null)>>
    /\ Select(trace, {"seed"}) = Seedings
    /\ Cardinality(db["profiles"]) = 3

============================================================================
